---- MODULE Spec2Model ----
(***************************************************************************)
(* Verification model of the voice calendar assistant:                     *)
(*   - NLPParser (src/nlp_parser.py): normalisation, date / time / title   *)
(*     extraction and assembly of the schedule record;                     *)
(*   - CalendarBot.check_time_conflict and parse_time_flexible             *)
(*     (src/calendar_bot.py): scan of the scraped event blocks and the     *)
(*     overlap test.                                                       *)
(*                                                                         *)
(* A text is a sequence of characters.  ASCII characters stand for         *)
(* themselves ("2", ":", "-", " ", ",").  A CJK character is written by    *)
(* an ASCII name (pinyin; numerals are c0..c10):                           *)
(*   jin U+4ECA   tian U+5929  ri U+65E5    ming U+660E  hou U+540E        *)
(*   da U+5927    zuo U+6628   qian U+524D  yue U+6708   hao U+53F7        *)
(*   zhou U+5468  xing U+661F  qi U+671F    xia U+4E0B   shang U+4E0A      *)
(*   ben U+672C   zhe U+8FD9   ge U+4E2A    dian U+70B9  ban U+534A        *)
(*   fen U+5206   dao U+5230   zhi U+81F3   zao U+65E9   wu U+5348         *)
(*   zhong U+4E2D wan U+665A   hui U+4F1A   yi U+8BAE    hui2 U+56DE       *)
(*   yi2 U+5FC6   yi3 U+610F   yi4 U+4E49   shi U+662F   zai U+5728        *)
(*   qing U+8BF7  an U+5B89    pai U+6392   kai U+5F00   tuan U+56E2       *)
(*   dui U+961F   zheng U+6B63 la U+814A    cheng U+7A0B quan U+5168          *)
(*   c0 U+96F6 c1 U+4E00 c2 U+4E8C c2b U+4E24 c3 U+4E09 c4 U+56DB          *)
(*   c5 U+4E94 c6 U+516D c7 U+4E03 c8 U+516B c9 U+4E5D c10 U+5341          *)
(*   C1 U+58F9 (formal one)  C10 U+62FE (formal ten)                       *)
(*   traditional forms: Liang U+5169 Hui U+6703 Dian U+9EDE Hou U+5F8C     *)
(*   Zhong U+9418 Hao U+865F Zhou U+9031 Bang U+5E6B; bang U+5E2E,         *)
(*   zhong1 U+949F; fwcomma U+FF0C (full-width comma), middot U+00B7,      *)
(*   endash U+2013, emdash U+2014                                          *)
(***************************************************************************)
EXTENDS Integers, Sequences, FiniteSets, TLC

(***************************************************************************)
(* Regular expressions as data, matched the way Python's re module does:   *)
(* backtracking, leftmost start, alternatives and greedy repetitions tried *)
(* in priority order.  ReM returns every way the expression can match at a *)
(* state, best first; re.search takes the first of the leftmost start.     *)
(***************************************************************************)
Lit(s) == [k |-> "lit", s |-> s]
Ch(c) == [k |-> "lit", s |-> <<c>>]
OneOf(cs) == [k |-> "set", cs |-> cs]
Cat(rs) == [k |-> "cat", rs |-> rs]
Alt(rs) == [k |-> "alt", rs |-> rs]
Rep(r, lo, hi) == [k |-> "rep", r |-> r, lo |-> lo, hi |-> hi]
Opt(r) == [k |-> "rep", r |-> r, lo |-> 0, hi |-> 1]
\* r+ and r*
Plus(r) == [k |-> "rep", r |-> r, lo |-> 1, hi |-> 0 - 1]
Star(r) == [k |-> "rep", r |-> r, lo |-> 0, hi |-> 0 - 1]
Grp(n, r) == [k |-> "grp", n |-> n, r |-> r]
NotAhead(r) == [k |-> "nla", r |-> r]

NoGroup == <<0, 0>>
NoGroups == [n \in 1..5 |-> NoGroup]

\* the states sts with group n set to the span from p to each state's position
SetGroup(sts, n, p) == [i \in 1..Len(sts) |-> [sts[i] EXCEPT !.g[n] = <<p, sts[i].p>>]]

RECURSIVE ReM(_, _, _), ReEach(_, _, _), ReCatFrom(_, _, _, _), ReAltFrom(_, _, _, _), ReRep(_, _, _, _, _), ReRepEach(_, _, _, _, _, _)
ReEach(r, t, sts) ==
    IF sts = <<>> THEN <<>> ELSE ReM(r, t, Head(sts)) \o ReEach(r, t, Tail(sts))

ReCatFrom(rs, i, t, sts) ==
    IF i > Len(rs) \/ sts = <<>> THEN sts ELSE ReCatFrom(rs, i + 1, t, ReEach(rs[i], t, sts))

ReAltFrom(rs, i, t, st) ==
    IF i > Len(rs) THEN <<>> ELSE ReM(rs[i], t, st) \o ReAltFrom(rs, i + 1, t, st)

\* one more round of a repetition from each state that consumed something
ReRepEach(r, lo, hi, t, from, sts) ==
    IF sts = <<>> THEN <<>>
    ELSE (IF Head(sts).p > from THEN ReRep(r, lo, hi, t, Head(sts)) ELSE <<>>)
         \o ReRepEach(r, lo, hi, t, from, Tail(sts))

\* greedy repetition, lo to hi times (hi < 0: unbounded)
ReRep(r, lo, hi, t, st) ==
    IF hi = 0 THEN <<st>>
    ELSE ReRepEach(r, IF lo > 0 THEN lo - 1 ELSE 0, IF hi > 0 THEN hi - 1 ELSE hi, t, st.p, ReM(r, t, st))
         \o (IF lo = 0 THEN <<st>> ELSE <<>>)

ReM(r, t, st) ==
    CASE r.k = "lit" ->
           IF st.p + Len(r.s) - 1 <= Len(t) /\ SubSeq(t, st.p, st.p + Len(r.s) - 1) = r.s
           THEN <<[st EXCEPT !.p = @ + Len(r.s)]>> ELSE <<>>
      [] r.k = "set" ->
           IF st.p <= Len(t) /\ t[st.p] \in r.cs THEN <<[st EXCEPT !.p = @ + 1]>> ELSE <<>>
      [] r.k = "cat" -> ReCatFrom(r.rs, 1, t, <<st>>)
      [] r.k = "alt" -> ReAltFrom(r.rs, 1, t, st)
      [] r.k = "rep" -> ReRep(r.r, r.lo, r.hi, t, st)
      [] r.k = "grp" -> SetGroup(ReM(r.r, t, st), r.n, st.p)
      [] r.k = "nla" -> IF ReM(r.r, t, st) = <<>> THEN <<st>> ELSE <<>>

\* A match: ok, [s, e) the span matched (1-based, e exclusive), g the groups.
NoMatch == [ok |-> FALSE, s |-> 0, e |-> 0, g |-> NoGroups]
FirstMatch(ms, i) ==
    IF ms = <<>> THEN NoMatch ELSE [ok |-> TRUE, s |-> i, e |-> Head(ms).p, g |-> Head(ms).g]

\* pattern.match(text, i)
ReMatchAt(r, t, i) == FirstMatch(ReM(r, t, [p |-> i, g |-> NoGroups]), i)

RECURSIVE ReSearchFrom(_, _, _), ReSearchStep(_, _, _, _)
ReSearchStep(r, t, i, m) == IF m.ok THEN m ELSE ReSearchFrom(r, t, i + 1)
ReSearchFrom(r, t, i) ==
    IF i > Len(t) + 1 THEN NoMatch ELSE ReSearchStep(r, t, i, ReMatchAt(r, t, i))

\* re.search(pattern, text)
ReSearch(r, t) == ReSearchFrom(r, t, 1)

\* m.group(n): the text of group n, <<>> when it is None (HasGroup tells them apart)
HasGroup(m, n) == m.g[n] # NoGroup
Group(t, m, n) == IF m.g[n] # NoGroup THEN SubSeq(t, m.g[n][1], m.g[n][2] - 1) ELSE <<>>
Group0(t, m) == SubSeq(t, m.s, m.e - 1)

\* The non-overlapping matches of r in t from position i on, left to right
\* (none of the patterns substituted can match the empty string).
RECURSIVE ReFindAll(_, _, _), ReFindAllStep(_, _, _)
ReFindAllStep(r, t, m) == IF ~m.ok \/ m.e = m.s THEN <<>> ELSE <<m>> \o ReFindAll(r, t, m.e)
ReFindAll(r, t, i) == ReFindAllStep(r, t, ReSearchFrom(r, t, i))

\* re.sub: t with each match ms[j] replaced by reps[j]
RECURSIVE Splice(_, _, _, _, _)
Splice(t, ms, reps, j, from) ==
    IF j > Len(ms) THEN SubSeq(t, from, Len(t))
    ELSE SubSeq(t, from, ms[j].s - 1) \o reps[j] \o Splice(t, ms, reps, j + 1, ms[j].e)

\* re.sub(pattern, repl, text) with the constant replacement repl
SubConstAt(ms, repl, text) == Splice(text, ms, [j \in 1..Len(ms) |-> repl], 1, 1)
SubConst(r, repl, text) == SubConstAt(ReFindAll(r, text, 1), repl, text)

\* str.replace(old, new)
RECURSIVE Replace(_, _, _)
Replace(t, old, new) ==
    IF Len(t) < Len(old) THEN t
    ELSE IF SubSeq(t, 1, Len(old)) = old THEN new \o Replace(SubSeq(t, Len(old) + 1, Len(t)), old, new)
    ELSE <<Head(t)>> \o Replace(Tail(t), old, new)

\* old in text
RECURSIVE Contains(_, _)
Contains(t, old) ==
    IF Len(t) < Len(old) THEN FALSE
    ELSE SubSeq(t, 1, Len(old)) = old \/ Contains(Tail(t), old)

(***************************************************************************)
(* Character classes of the patterns and small string helpers.             *)
(***************************************************************************)
Digits == {"0", "1", "2", "3", "4", "5", "6", "7", "8", "9"}
DigitChar == <<"0", "1", "2", "3", "4", "5", "6", "7", "8", "9">>
DigitVal(c) == (CHOOSE i \in 1..10 : DigitChar[i] = c) - 1
Space == {" "}

\* str.isdigit() on a non-empty string
IsDigit(cn) == cn # <<>> /\ \A i \in 1..Len(cn) : cn[i] \in Digits

\* int(s) of a digit string
RECURSIVE StrToInt(_)
StrToInt(s) == IF s = <<>> THEN 0 ELSE 10 * StrToInt(SubSeq(s, 1, Len(s) - 1)) + DigitVal(s[Len(s)])

\* str(n) / f"{n}" of a natural number
RECURSIVE IntToStr(_)
IntToStr(n) == IF n < 10 THEN <<DigitChar[n + 1]>> ELSE IntToStr(n \div 10) \o <<DigitChar[(n % 10) + 1]>>

\* str.startswith
StartsWith(t, pre) == Len(t) >= Len(pre) /\ SubSeq(t, 1, Len(pre)) = pre

\* str.strip()
RECURSIVE LStrip(_), RStrip(_)
LStrip(t) == IF t # <<>> /\ Head(t) \in Space THEN LStrip(Tail(t)) ELSE t
RStrip(t) == IF t # <<>> /\ t[Len(t)] \in Space THEN RStrip(SubSeq(t, 1, Len(t) - 1)) ELSE t
Strip(t) == RStrip(LStrip(t))

(***************************************************************************)
(* NLPParser.__init__: the lookup tables.                                  *)
(***************************************************************************)
\* self.chinese_numbers.get(c, 0) on one character
NumeralValue(c) ==
    CASE c = "c0" -> 0 [] c \in {"c1", "C1"} -> 1 [] c \in {"c2", "c2b"} -> 2
      [] c = "c3" -> 3 [] c = "c4" -> 4 [] c = "c5" -> 5 [] c = "c6" -> 6
      [] c = "c7" -> 7 [] c = "c8" -> 8 [] c = "c9" -> 9
      [] c \in {"c10", "C10"} -> 10 [] OTHER -> 0
\* self.chinese_numbers.get(cn, 0) on a string key
chinese_numbers(cn) == IF Len(cn) # 1 THEN 0 ELSE NumeralValue(cn[1])

\* self.weekday_map on the characters the weekday pattern admits
weekday_map(c) ==
    CASE c = "c1" -> 0 [] c = "c2" -> 1 [] c = "c3" -> 2 [] c = "c4" -> 3 [] c = "c5" -> 4
      [] c = "c6" -> 5 [] c \in {"ri", "tian"} -> 6

\* self.month_map.get(name), 0 standing for None
month_map(name) ==
    CASE name = <<"c1", "yue">> -> 1 [] name = <<"c2", "yue">> -> 2 [] name = <<"c3", "yue">> -> 3
      [] name = <<"c4", "yue">> -> 4 [] name = <<"c5", "yue">> -> 5 [] name = <<"c6", "yue">> -> 6
      [] name = <<"c7", "yue">> -> 7 [] name = <<"c8", "yue">> -> 8 [] name = <<"c9", "yue">> -> 9
      [] name = <<"c10", "yue">> -> 10 [] name = <<"c10", "c1", "yue">> -> 11
      [] name = <<"c10", "c2", "yue">> -> 12 [] name = <<"zheng", "yue">> -> 1
      [] name = <<"la", "yue">> -> 12 [] OTHER -> 0

(***************************************************************************)
(* NLPParser.chinese_to_number                                             *)
(***************************************************************************)
chinese_to_number(cn) ==
    IF cn = <<>> THEN 0
    ELSE IF IsDigit(cn) THEN StrToInt(cn)
    ELSE IF cn = <<"c2", "c10">> THEN 20
    ELSE IF cn = <<"c3", "c10">> THEN 30
    ELSE IF cn = <<"c10">> THEN 10
    ELSE IF StartsWith(cn, <<"c2", "c10">>) THEN 20 + chinese_numbers(SubSeq(cn, 3, Len(cn)))
    ELSE IF cn = <<"c3", "c10", "c1">> THEN 31
    ELSE IF StartsWith(cn, <<"c10">>) THEN 10 + chinese_numbers(SubSeq(cn, 2, Len(cn)))
    ELSE chinese_numbers(cn)

(***************************************************************************)
(* Calendar arithmetic of datetime / calendar (proleptic Gregorian).       *)
(* A date is [y, m, d]; ordinals count days from 0001-01-01 = 1.           *)
(***************************************************************************)
IsLeap(y) == (y % 4 = 0) /\ ((y % 100 # 0) \/ (y % 400 = 0))
DaysInMonth(y, m) ==
    IF m = 2 THEN (IF IsLeap(y) THEN 29 ELSE 28)
    ELSE IF m \in {4, 6, 9, 11} THEN 30 ELSE 31
DaysBeforeYear(y) == (y - 1) * 365 + ((y - 1) \div 4) - ((y - 1) \div 100) + ((y - 1) \div 400)
RECURSIVE DaysBeforeMonth(_, _)
DaysBeforeMonth(y, m) == IF m = 1 THEN 0 ELSE DaysBeforeMonth(y, m - 1) + DaysInMonth(y, m - 1)
ToOrdinal(dt) == DaysBeforeYear(dt.y) + DaysBeforeMonth(dt.y, dt.m) + dt.d
\* date.max.toordinal(): 9999-12-31
MaxOrdinal == DaysBeforeYear(10000)
\* datetime(y, m, d) succeeds
ValidDate(y, m, d) ==
    /\ 1 <= y /\ y <= 9999
    /\ 1 <= m /\ m <= 12
    /\ 1 <= d /\ d <= DaysInMonth(y, m)
MkDate(y, m, d) == [y |-> y, m |-> m, d |-> d]
YearNear(n, est) ==
    IF DaysBeforeYear(est) >= n THEN est - 1
    ELSE IF DaysBeforeYear(est + 1) < n THEN est + 1 ELSE est
YearOfOrdinal(n) == YearNear(n, ((n - 1) * 400) \div 146097 + 1)
MonthOfDay(y, r) == CHOOSE k \in 1..12 : DaysBeforeMonth(y, k) < r /\ r <= DaysBeforeMonth(y, k) + DaysInMonth(y, k)
DateInMonth(y, r, m) == MkDate(y, m, r - DaysBeforeMonth(y, m))
DateInYear(y, r) == DateInMonth(y, r, MonthOfDay(y, r))
DateInYearOf(n, y) == DateInYear(y, n - DaysBeforeYear(y))
\* date.fromordinal(n)
FromOrdinal(n) == DateInYearOf(n, YearOfOrdinal(n))
\* date.weekday(): Monday = 0 .. Sunday = 6
Weekday(dt) == (ToOrdinal(dt) + 6) % 7

\* What a call yields: a value, None, or an exception that leaves the function.
None == [k |-> "none"]
Raise(e) == [k |-> "raise", e |-> e]
SomeDate(dt) == [k |-> "date", d |-> dt]
\* datetime(y, m, d).date(), ValueError when there is no such date
DateOrError(y, m, d) == IF ValidDate(y, m, d) THEN SomeDate(MkDate(y, m, d)) ELSE Raise("ValueError")
\* the date of ordinal o, OverflowError outside date.min .. date.max
DateOfOrdinal(o) == IF o < 1 \/ o > MaxOrdinal THEN Raise("OverflowError") ELSE SomeDate(FromOrdinal(o))
\* (today + timedelta(days = n)).date()
PlusDays(today, n) == DateOfOrdinal(ToOrdinal(today) + n)

(***************************************************************************)
(* The patterns' character classes.                                        *)
(***************************************************************************)
\* [零一二三四五六七八九十壹拾] of _normalize_chinese_numbers_in_date
CnDateNum == {"c0", "c1", "c2", "c3", "c4", "c5", "c6", "c7", "c8", "c9", "c10", "C1", "C10"}
\* [零一二两三四五六七八九十] of extract_time and extract_title
CnTimeNum == {"c0", "c1", "c2", "c2b", "c3", "c4", "c5", "c6", "c7", "c8", "c9", "c10"}
\* [零一二两三四五六七八九十壹拾] of _parse_day_relative_date
CnAllNum == CnTimeNum \cup {"C1", "C10"}
\* [一二三四五六日天] of _parse_relative_weekday
WeekdayChars == {"c1", "c2", "c3", "c4", "c5", "c6", "ri", "tian"}
\* \s*
Spaces == Star(OneOf(Space))
\* (1[0-2]|0?[1-9])
MonthNum == Alt(<<Cat(<<Ch("1"), OneOf({"0", "1", "2"})>>),
                  Cat(<<Opt(Ch("0")), OneOf(Digits \ {"0"})>>)>>)
\* f"{month}月{day}日"
MonthDayText(month, day) == IntToStr(month) \o <<"yue">> \o IntToStr(day) \o <<"ri">>

(***************************************************************************)
(* NLPParser._normalize_text                                               *)
(***************************************************************************)
_normalize_text(text) ==
    Replace(Replace(Replace(Replace(Replace(Replace(Replace(Replace(Replace(Replace(Replace(text,
        <<"Liang">>, <<"c2b">>), <<"Hui">>, <<"hui">>), <<"Bang">>, <<"bang">>), <<"Dian">>, <<"dian">>),
        <<"jin">>, <<"jin">>), <<"ming">>, <<"ming">>), <<"Hou">>, <<"hou">>),
        <<"zhong1">>, <<"zhong1">>), <<"Zhong">>, <<"zhong1">>), <<"Hao">>, <<"hao">>), <<"Zhou">>, <<"zhou">>)

(***************************************************************************)
(* NLPParser._apply_error_correction                                       *)
(***************************************************************************)
Meeting == <<"hui", "yi">>

\* lines 118-119: self.error_correction_map applied in order
CorrectHomophones(text) ==
    Replace(Replace(Replace(Replace(text, <<"hui2", "yi2">>, Meeting), <<"hui", "yi3">>, Meeting),
                    <<"hui", "yi4">>, Meeting), <<"h", "u", "i", "y", "i">>, Meeting)

\* r"(\d{3,4})\s*(会议|回忆|会|议)"
CompactDatePattern ==
    Cat(<<Grp(1, Rep(OneOf(Digits), 3, 4)), Spaces,
          Grp(2, Alt(<<Lit(Meeting), Lit(<<"hui2", "yi2">>), Ch("hui"), Ch("yi")>>))>>)

\* lines 131-137: the rewrite when month and day are in range, else the match as it was
CompactMonthDay(m, d, whole) ==
    IF 1 <= m /\ m <= 12 /\ 1 <= d /\ d <= 31 THEN MonthDayText(m, d) ELSE whole

\* lines 123-129: the month and day digits of the run num
CompactDate(num, whole) ==
    IF Len(num) = 3 /\ num[1] \in Digits \ {"0"}
    THEN CompactMonthDay(StrToInt(SubSeq(num, 1, 1)), StrToInt(SubSeq(num, 2, 3)), whole)
    ELSE IF Len(num) = 4
    THEN (IF num[1] = "0"
          THEN CompactMonthDay(StrToInt(SubSeq(num, 2, 2)), StrToInt(SubSeq(num, 3, 4)), whole)
          ELSE CompactMonthDay(StrToInt(SubSeq(num, 1, 2)), StrToInt(SubSeq(num, 3, 4)), whole))
    ELSE whole

replace_compact_date(text, match) == CompactDate(Group(text, match, 1), Group0(text, match))

\* line 139: re.sub(pattern, replace_compact_date, text)
SubCompactDates(text, ms) == Splice(text, ms, [j \in 1..Len(ms) |-> replace_compact_date(text, ms[j])], 1, 1)
RewriteCompactDates(text) == SubCompactDates(text, ReFindAll(CompactDatePattern, text, 1))

_apply_error_correction(text) == RewriteCompactDates(CorrectHomophones(text))

(***************************************************************************)
(* NLPParser._normalize_chinese_numbers_in_date                            *)
(***************************************************************************)
\* r"(二十[一二三四五六七八九]?|三十[一]?|[零一二三四五六七八九十壹拾]+)\s*(号|日)"
DateNumberPattern ==
    Cat(<<Grp(1, Alt(<<Cat(<<Lit(<<"c2", "c10">>),
                             Opt(OneOf({"c1", "c2", "c3", "c4", "c5", "c6", "c7", "c8", "c9"}))>>),
                       Cat(<<Lit(<<"c3", "c10">>), Opt(Ch("c1"))>>),
                       Plus(OneOf(CnDateNum))>>)),
          Spaces, Grp(2, OneOf({"hao", "ri"}))>>)

DateNumberText(number, whole) == IF number > 0 THEN IntToStr(number) \o <<"ri">> ELSE whole
replace_date_number(text, match) ==
    DateNumberText(chinese_to_number(Group(text, match, 1)), Group0(text, match))

\* r"(十一|十二|[零一二三四五六七八九十壹拾]+)月"
MonthNumberPattern ==
    Cat(<<Grp(1, Alt(<<Lit(<<"c10", "c1">>), Lit(<<"c10", "c2">>), Plus(OneOf(CnDateNum))>>)),
          Ch("yue")>>)

MonthNumberText(month, whole) == IF 1 <= month /\ month <= 12 THEN IntToStr(month) \o <<"yue">> ELSE whole
replace_month_number(text, match) ==
    MonthNumberText(chinese_to_number(Group(text, match, 1)), Group0(text, match))

\* line 150 and line 158: the two re.sub calls
SubDateNumbers(text, ms) == Splice(text, ms, [j \in 1..Len(ms) |-> replace_date_number(text, ms[j])], 1, 1)
RewriteDateNumbers(text) == SubDateNumbers(text, ReFindAll(DateNumberPattern, text, 1))
SubMonthNumbers(text, ms) == Splice(text, ms, [j \in 1..Len(ms) |-> replace_month_number(text, ms[j])], 1, 1)
RewriteMonthNumbers(text) == SubMonthNumbers(text, ReFindAll(MonthNumberPattern, text, 1))

_normalize_chinese_numbers_in_date(text) == RewriteMonthNumbers(RewriteDateNumbers(text))

(***************************************************************************)
(* NLPParser._preprocess_date_patterns                                     *)
(***************************************************************************)
\* r"(正月|一月|...|十二月)([0-9零一二两三四五六七八九十壹拾]+)[日号]"
ChineseMonthPattern ==
    Cat(<<Grp(1, Alt(<<Lit(<<"zheng", "yue">>), Lit(<<"c1", "yue">>), Lit(<<"c2", "yue">>),
                       Lit(<<"c3", "yue">>), Lit(<<"c4", "yue">>), Lit(<<"c5", "yue">>),
                       Lit(<<"c6", "yue">>), Lit(<<"c7", "yue">>), Lit(<<"c8", "yue">>),
                       Lit(<<"c9", "yue">>), Lit(<<"c10", "yue">>), Lit(<<"c10", "c1", "yue">>),
                       Lit(<<"c10", "c2", "yue">>)>>)),
          Grp(2, Plus(OneOf(Digits \cup CnAllNum))), OneOf({"ri", "hao"})>>)

\* r"(1[0-2]|0?[1-9])[·\.]([0-9]{1,2})"
DottedPattern ==
    Cat(<<Grp(1, MonthNum), OneOf({"middot", "."}), Grp(2, Rep(OneOf(Digits), 1, 2))>>)

\* lines 176-177: every match replaced by the first match's month and day
ChineseMonthRewrite(text, month, day) ==
    IF month # 0 /\ day # 0 /\ 1 <= day /\ day <= 31
    THEN SubConst(ChineseMonthPattern, MonthDayText(month, day), text) ELSE text
\* lines 168-174
ChineseMonthAt(text, match) ==
    IF match.ok
    THEN ChineseMonthRewrite(text, month_map(Group(text, match, 1)), chinese_to_number(Group(text, match, 2)))
    ELSE text
PreprocessChineseMonth(text) == ChineseMonthAt(text, ReSearch(ChineseMonthPattern, text))

\* lines 186-187
DottedRewrite(text, month, day) ==
    IF 1 <= day /\ day <= 31 THEN SubConst(DottedPattern, MonthDayText(month, day), text) ELSE text
\* lines 182-185
DottedAt(text, match) ==
    IF match.ok THEN DottedRewrite(text, StrToInt(Group(text, match, 1)), StrToInt(Group(text, match, 2)))
    ELSE text
PreprocessDotted(text) == DottedAt(text, ReSearch(DottedPattern, text))

_preprocess_date_patterns(text) == PreprocessDotted(PreprocessChineseMonth(Replace(text, <<" ">>, <<>>)))

\* parse, lines 55-64: the four stages in order
Normalize(text) ==
    _preprocess_date_patterns(_normalize_chinese_numbers_in_date(_apply_error_correction(_normalize_text(text))))

(***************************************************************************)
(* The five date grammars of extract_date.  today is the reference date    *)
(* (datetime.today()); each grammar yields None, a date, or raises.        *)
(***************************************************************************)
JinTian == <<"jin", "tian">>
MingTian == <<"ming", "tian">>
HouTian == <<"hou", "tian">>
DaHouTian == <<"da", "hou", "tian">>
ZuoTian == <<"zuo", "tian">>
QianTian == <<"qian", "tian">>

\* the keyword tests with 明天 tried before 今天
BaseKeywordsTomorrowFirst(text, today) ==
    IF Contains(text, MingTian) \/ Contains(text, <<"ming", "ri">>) THEN PlusDays(today, 1)
    ELSE IF Contains(text, JinTian) \/ Contains(text, <<"jin", "ri">>) THEN SomeDate(today)
    ELSE IF Contains(text, HouTian) THEN PlusDays(today, 2)
    ELSE IF Contains(text, ZuoTian) \/ Contains(text, <<"zuo", "ri">>) THEN PlusDays(today, 0 - 1)
    ELSE IF Contains(text, QianTian) THEN PlusDays(today, 0 - 2)
    ELSE None
\* NLPParser._parse_base_keywords
_parse_base_keywords(text, today) ==
    IF Contains(text, JinTian) \/ Contains(text, <<"jin", "ri">>) THEN SomeDate(today)
    ELSE IF Contains(text, MingTian) \/ Contains(text, <<"ming", "ri">>) THEN PlusDays(today, 1)
    ELSE IF Contains(text, HouTian) THEN PlusDays(today, 2)
    ELSE IF Contains(text, DaHouTian) THEN PlusDays(today, 3)
    ELSE IF Contains(text, ZuoTian) \/ Contains(text, <<"zuo", "ri">>) THEN PlusDays(today, 0 - 1)
    ELSE IF Contains(text, QianTian) THEN PlusDays(today, 0 - 2)
    ELSE None

\* r"(1[0-2]|0?[1-9])月(\d{1,2})[日号]?"
MonthDayPattern ==
    Cat(<<Grp(1, MonthNum), Ch("yue"), Grp(2, Rep(OneOf(Digits), 1, 2)), Opt(OneOf({"ri", "hao"}))>>)
\* r"(1[0-2]|0?[1-9])[/\-\.]([0-9]{1,2})"
SlashDatePattern ==
    Cat(<<Grp(1, MonthNum), OneOf({"/", "-", "."}), Grp(2, Rep(OneOf(Digits), 1, 2))>>)
\* r"(\d{1,2})[日号]?"
DayOnlyPattern == Cat(<<Grp(1, Rep(OneOf(Digits), 1, 2)), Opt(OneOf({"ri", "hao"}))>>)

\* lines 255-259: datetime(year, month, day).date(), None when it is no date
DateOrNone(y, m, d) == IF ValidDate(y, m, d) THEN SomeDate(MkDate(y, m, d)) ELSE None

\* the month and day always placed in today's year
MonthDayDateThisYear(month, day, today) == DateOrNone(today.y, month, day)

\* lines 250-253: next year when the month and day are before today's
MonthDayDate(month, day, today) ==
    DateOrNone(IF today.m > month \/ (today.m = month /\ today.d > day) THEN today.y + 1 ELSE today.y,
               month, day)
\* lines 246-259: one month/day pattern; None stands for "continue"
MonthDayAt(text, match, today) ==
    IF match.ok THEN MonthDayDate(StrToInt(Group(text, match, 1)), StrToInt(Group(text, match, 2)), today)
    ELSE None
MonthDayLiteral(pattern, text, today) == MonthDayAt(text, ReSearch(pattern, text), today)

\* lines 266-277: this month, or the next when the day is before today's
DayOnlyDate(day, today) ==
    IF day < today.d
    THEN (IF today.m + 1 > 12 THEN DateOrNone(today.y + 1, 1, day) ELSE DateOrNone(today.y, today.m + 1, day))
    ELSE DateOrNone(today.y, today.m, day)
\* lines 262-265
DayOnlyAt(text, match, today) ==
    IF match.ok THEN DayOnlyDate(StrToInt(Group(text, match, 1)), today) ELSE None
DayOnlyLiteral(text, today) == DayOnlyAt(text, ReSearch(DayOnlyPattern, text), today)

\* the first of a and b that is not None
OrElse(a, b) == IF a # None THEN a ELSE b

\* NLPParser._parse_specific_date
_parse_specific_date(text, today) ==
    OrElse(MonthDayLiteral(MonthDayPattern, text, today),
           OrElse(MonthDayLiteral(SlashDatePattern, text, today), DayOnlyLiteral(text, today)))

\* r"(下下|下|本|这|上)?\s*个?\s*(周|星期)([一二三四五六日天])"
RelativeWeekdayPattern ==
    Cat(<<Opt(Grp(1, Alt(<<Lit(<<"xia", "xia">>), Ch("xia"), Ch("ben"), Ch("zhe"), Ch("shang")>>))),
          Spaces, Opt(Ch("ge")), Spaces,
          Grp(2, Alt(<<Ch("zhou"), Lit(<<"xing", "qi">>)>>)), Grp(3, OneOf(WeekdayChars))>>)

\* lines 302-304: days to the coming Monday, 7 when today is a Monday
ToNextMonday(current_weekday) ==
    IF (7 - current_weekday) % 7 = 0 THEN 7 ELSE (7 - current_weekday) % 7
DaysUntilNextMonday(today) == ToNextMonday(Weekday(today))

\* days_ahead with the offset 0 of "ben" and "zhe" left at 0
DaysAheadSameDay(prefix, target_weekday, current_weekday) ==
    IF prefix = <<"xia">> THEN ToNextMonday(current_weekday) + target_weekday
    ELSE IF prefix = <<"xia", "xia">> THEN ToNextMonday(current_weekday) + 7 + target_weekday
    ELSE IF prefix \in {<<"ben">>, <<"zhe">>}
         THEN (IF target_weekday - current_weekday < 0
               THEN target_weekday - current_weekday + 7
               ELSE target_weekday - current_weekday)
    ELSE IF prefix = <<"shang">> THEN target_weekday - current_weekday - 7
    ELSE (IF (target_weekday - current_weekday) % 7 = 0 THEN 7
          ELSE (target_weekday - current_weekday) % 7)

\* lines 300-331: days_ahead for the prefix and the two weekday indices
DaysAhead(prefix, target_weekday, current_weekday) ==
    IF prefix = <<"xia">> THEN ToNextMonday(current_weekday) + target_weekday
    ELSE IF prefix = <<"xia", "xia">> THEN ToNextMonday(current_weekday) + 7 + target_weekday
    ELSE IF prefix \in {<<"ben">>, <<"zhe">>}
         THEN (IF target_weekday - current_weekday <= 0
               THEN target_weekday - current_weekday + 7
               ELSE target_weekday - current_weekday)
    ELSE IF prefix = <<"shang">> THEN target_weekday - current_weekday - 7
    ELSE (IF (target_weekday - current_weekday) % 7 = 0 THEN 7
          ELSE (target_weekday - current_weekday) % 7)

RelativeWeekdayAt(text, match, today) ==
    IF ~match.ok THEN None
    ELSE PlusDays(today, DaysAhead(Group(text, match, 1), weekday_map(Group(text, match, 3)[1]), Weekday(today)))

\* NLPParser._parse_relative_weekday
_parse_relative_weekday(text, today) == RelativeWeekdayAt(text, ReSearch(RelativeWeekdayPattern, text), today)

\* r"下+\s*周(?![一二三四五六日天])"
NextWeekPattern == Cat(<<Plus(Ch("xia")), Spaces, Ch("zhou"), NotAhead(OneOf(WeekdayChars))>>)
\* r"(下+)\s*周"
WeeksPattern == Cat(<<Grp(1, Plus(Ch("xia"))), Spaces, Ch("zhou")>>)
\* r"(下+)\s*个?\s*月(?:\s*(\d{1,2})[日号])?"
NextMonthPattern ==
    Cat(<<Grp(1, Plus(Ch("xia"))), Spaces, Opt(Ch("ge")), Spaces, Ch("yue"),
          Opt(Cat(<<Spaces, Grp(2, Rep(OneOf(Digits), 1, 2)), OneOf({"ri", "hao"})>>))>>)

\* lines 343-353: the Monday weeks_ahead weeks ahead
NextWeekAt(text, weeks_match, today) ==
    PlusDays(today, DaysUntilNextMonday(today) + (Len(Group(text, weeks_match, 1)) - 1) * 7)

\* lines 372-377: the day of the target month, its last day when there is no such day
ClampedDay(y, m, day) ==
    IF ValidDate(y, m, day) THEN SomeDate(MkDate(y, m, day)) ELSE DateOrError(y, m, DaysInMonth(y, m))

\* lines 363-380: the month months_ahead months after today's
NextMonthDate(total, year, has_day, day) ==
    IF has_day THEN ClampedDay(year + ((total - 1) \div 12), ((total - 1) % 12) + 1, day)
    ELSE DateOrError(year + ((total - 1) \div 12), ((total - 1) % 12) + 1, 1)

NextMonthAt(text, match, today) ==
    IF ~match.ok THEN None
    ELSE NextMonthDate(today.m + Len(Group(text, match, 1)), today.y,
                       HasGroup(match, 2), StrToInt(Group(text, match, 2)))

\* NLPParser._parse_week_month_date (text has no spaces: extract_date removed them)
_parse_week_month_date(text, today) ==
    IF ReSearch(NextWeekPattern, text).ok
    THEN NextWeekAt(text, ReSearch(WeeksPattern, text), today)
    ELSE NextMonthAt(text, ReSearch(NextMonthPattern, text), today)

\* r"(\d+|[零一二两三四五六七八九十壹拾]+)\s*天\s*后?" and its week and month forms
NumberGroup == Grp(1, Alt(<<Plus(OneOf(Digits)), Plus(OneOf(CnAllNum))>>))
DaysLaterPattern == Cat(<<NumberGroup, Spaces, Ch("tian"), Spaces, Opt(Ch("hou"))>>)
WeeksLaterPattern == Cat(<<NumberGroup, Spaces, Ch("zhou"), Spaces, Opt(Ch("hou"))>>)
MonthsLaterPattern == Cat(<<NumberGroup, Spaces, Opt(Ch("ge")), Spaces, Ch("yue"), Spaces, Opt(Ch("hou"))>>)

\* lines 394-401: the number of one unit's pattern, 0 when the loop continues
UnitNumberAt(text, match) == IF match.ok THEN chinese_to_number(Group(text, match, 1)) ELSE 0
UnitNumber(pattern, text) == UnitNumberAt(text, ReSearch(pattern, text))

\* lines 411-414: the day clamped to the month's length
ClampToMonth(year, month, day) ==
    DateOrError(year, month, IF day < DaysInMonth(year, month) THEN day ELSE DaysInMonth(year, month))
\* lines 407-414: today plus number calendar months
PlusMonths(today, number) ==
    ClampToMonth(today.y + ((today.m + number - 1) \div 12), ((today.m + number - 1) % 12) + 1, today.d)

\* lines 394-414: the first unit with a number decides
DayRelative(days, weeks, months, today) ==
    IF days # 0 THEN PlusDays(today, days)
    ELSE IF weeks # 0 THEN PlusDays(today, 7 * weeks)
    ELSE IF months # 0 THEN PlusMonths(today, months)
    ELSE None

\* NLPParser._parse_day_relative_date (text has no spaces)
_parse_day_relative_date(text, today) ==
    DayRelative(UnitNumber(DaysLaterPattern, text), UnitNumber(WeeksLaterPattern, text),
                UnitNumber(MonthsLaterPattern, text), today)

\* extract_date, lines 198-204: the parsers in the order they are tried
NumParsers == 5
\* the parsers with the specific-date one tried before the keyword one
ParserSpecificFirst(i, text, today) ==
    CASE i = 1 -> _parse_specific_date(text, today)
      [] i = 2 -> _parse_base_keywords(text, today)
      [] i = 3 -> _parse_relative_weekday(text, today)
      [] i = 4 -> _parse_week_month_date(text, today)
      [] i = 5 -> _parse_day_relative_date(text, today)
Parser(i, text, today) ==
    CASE i = 1 -> _parse_base_keywords(text, today)
      [] i = 2 -> _parse_specific_date(text, today)
      [] i = 3 -> _parse_relative_weekday(text, today)
      [] i = 4 -> _parse_week_month_date(text, today)
      [] i = 5 -> _parse_day_relative_date(text, today)

(***************************************************************************)
(* NLPParser.extract_time: None, a pair of times of day                    *)
(* [sh, sm, eh, em], or an exception.                                      *)
(***************************************************************************)
\* [0-9零一二两三四五六七八九十]+
TimeNum == Plus(OneOf(Digits \cup CnTimeNum))
\* (早上|上午|中午|下午|晚上)
Period == Alt(<<Lit(<<"zao", "shang">>), Lit(<<"shang", "wu">>), Lit(<<"zhong", "wu">>),
                Lit(<<"xia", "wu">>), Lit(<<"wan", "shang">>)>>)
\* (?:到|至|-|~)
RangeSep == OneOf({"dao", "zhi", "-", "~"})
\* (半|[0-9零一二两三四五六七八九十]+分)
MinutePart == Alt(<<Ch("ban"), Cat(<<TimeNum, Ch("fen")>>)>>)
\* ([0-9]{1,2}):([0-9]{2}) as groups n and k
HourMinute(n, k) == Cat(<<Grp(n, Rep(OneOf(Digits), 1, 2)), Ch(":"), Grp(k, Rep(OneOf(Digits), 2, 2))>>)

\* range_patterns[0], [1], [2]
RangePattern0 ==
    Cat(<<Opt(Grp(1, Period)), Spaces, Grp(2, TimeNum), Spaces, Ch("dian"), Opt(Grp(3, MinutePart)),
          Spaces, RangeSep, Spaces, Grp(4, TimeNum), Spaces, Ch("dian"), Opt(Grp(5, MinutePart))>>)
RangePattern1 == Cat(<<HourMinute(1, 2), Spaces, RangeSep, Spaces, HourMinute(3, 4)>>)
RangePattern2 ==
    Cat(<<HourMinute(1, 2), Spaces, RangeSep, Spaces, Grp(3, Rep(OneOf(Digits), 1, 2)), Spaces, Opt(Ch("dian"))>>)
\* single_patterns[0], [1]
SinglePattern0 ==
    Cat(<<Opt(Grp(1, Period)), Spaces, Grp(2, TimeNum), Spaces, Ch("dian"), Opt(Grp(3, MinutePart))>>)
SinglePattern1 == HourMinute(1, 2)

Afternoon == {<<"xia", "wu">>, <<"wan", "shang">>}
Noon == <<"zhong", "wu">>
Morning == {<<"zao", "shang">>, <<"shang", "wu">>}

\* lines 433, 435, 468: the minute of a 半 / N分 group, 0 when the group is None
MinuteOf(text, m, n) ==
    IF Group(text, m, n) = <<"ban">> THEN 30
    ELSE IF HasGroup(m, n) THEN chinese_to_number(Replace(Group(text, m, n), <<"fen">>, <<>>))
    ELSE 0

\* (time(sh, sm), time(eh, em)): ValueError outside 0..23 / 0..59
TimePair(sh, sm, eh, em) ==
    IF sh \in 0..23 /\ sm \in 0..59 /\ eh \in 0..23 /\ em \in 0..59
    THEN [k |-> "pair", sh |-> sh, sm |-> sm, eh |-> eh, em |-> em]
    ELSE Raise("ValueError")

\* lines 443-454: the day-period adjustment of a range, then the two times
RangeTimes(period, start_hour, start_minute, end_hour, end_minute) ==
    IF period \in Afternoon
    THEN TimePair(IF start_hour < 12 THEN start_hour + 12 ELSE start_hour, start_minute,
                  IF end_hour < 12 THEN end_hour + 12 ELSE end_hour, end_minute)
    ELSE IF period = Noon /\ start_hour < 12
    THEN TimePair(start_hour + 12, start_minute, end_hour + 12, end_minute)
    ELSE IF period \in Morning /\ start_hour = 12
    THEN TimePair(0, start_minute, 1, end_minute)
    ELSE TimePair(start_hour, start_minute, end_hour, end_minute)

\* lines 474-482: the day-period adjustment of a single time, returned twice
SingleTime(period, hour, minute) ==
    IF period \in Afternoon THEN TimePair(IF hour < 12 THEN hour + 12 ELSE hour, minute,
                                          IF hour < 12 THEN hour + 12 ELSE hour, minute)
    ELSE IF period = Noon /\ hour < 12 THEN TimePair(hour + 12, minute, hour + 12, minute)
    ELSE IF period \in Morning /\ hour = 12 THEN TimePair(0, minute, 0, minute)
    ELSE TimePair(hour, minute, hour, minute)

\* lines 431-435: the numeral form of a range
ChineseRange(text, m) ==
    RangeTimes(Group(text, m, 1), chinese_to_number(Group(text, m, 2)), MinuteOf(text, m, 3),
               chinese_to_number(Group(text, m, 4)), MinuteOf(text, m, 5))
\* lines 437-441 on range_patterns[1]
DigitRange(text, m) ==
    RangeTimes(<<>>, StrToInt(Group(text, m, 1)), StrToInt(Group(text, m, 2)),
               StrToInt(Group(text, m, 3)), StrToInt(Group(text, m, 4)))
\* lines 466-468
ChineseSingle(text, m) ==
    SingleTime(Group(text, m, 1), chinese_to_number(Group(text, m, 2)), MinuteOf(text, m, 3))
\* lines 470-472
DigitSingle(text, m) == SingleTime(<<>>, StrToInt(Group(text, m, 1)), StrToInt(Group(text, m, 2)))

\* lines 463-484: the loop over single_patterns
SingleFrom1(text, m) == IF m.ok THEN DigitSingle(text, m) ELSE None
SingleFrom0(text, m) ==
    IF m.ok THEN ChineseSingle(text, m) ELSE SingleFrom1(text, ReSearch(SinglePattern1, text))
\* lines 427-456: the loop over range_patterns; range_patterns[2] has three
\* groups, so m.group(4) at line 440 raises IndexError
RangeFrom2(text, m) ==
    IF m.ok THEN Raise("IndexError") ELSE SingleFrom0(text, ReSearch(SinglePattern0, text))
RangeFrom1(text, m) ==
    IF m.ok THEN DigitRange(text, m) ELSE RangeFrom2(text, ReSearch(RangePattern2, text))
RangeFrom0(text, m) ==
    IF m.ok THEN ChineseRange(text, m) ELSE RangeFrom1(text, ReSearch(RangePattern1, text))

extract_time(text) == RangeFrom0(text, ReSearch(RangePattern0, text))

(***************************************************************************)
(* NLPParser.extract_title                                                 *)
(***************************************************************************)
\* r"(早上|上午|中午|下午|晚上)?\s*[0-9零一二两三四五六七八九十]+点([0-9零一二两三四五六七八九十]+分|半)?"
TitleTimePattern ==
    Cat(<<Opt(Period), Spaces, TimeNum, Ch("dian"), Opt(Alt(<<Cat(<<TimeNum, Ch("fen")>>), Ch("ban")>>))>>)
\* r"(今天|明天|后天|大后天|昨天|前天|上周|下周|本周|这周|下下|下|上|本|这|个|周|星期|月|号|日)"
TitleStopPattern ==
    Alt(<<Lit(JinTian), Lit(MingTian), Lit(HouTian), Lit(DaHouTian), Lit(ZuoTian), Lit(QianTian),
          Lit(<<"shang", "zhou">>), Lit(<<"xia", "zhou">>), Lit(<<"ben", "zhou">>), Lit(<<"zhe", "zhou">>),
          Lit(<<"xia", "xia">>), Ch("xia"), Ch("shang"), Ch("ben"), Ch("zhe"), Ch("ge"), Ch("zhou"),
          Lit(<<"xing", "qi">>), Ch("yue"), Ch("hao"), Ch("ri")>>)

\* "日程安排"
DefaultTitle == <<"ri", "cheng", "an", "pai">>
MaxTitleLen == 20

\* lines 488-491: the four re.sub calls
RemoveTimesAndDates(text) ==
    SubConst(MonthDayPattern, <<>>,
             SubConst(TitleStopPattern, <<>>,
                      SubConst(HourMinute(1, 2), <<>>, SubConst(TitleTimePattern, <<>>, text))))
\* line 492: the replace chain and strip()
RemoveFillers(text) ==
    Strip(Replace(Replace(Replace(Replace(Replace(text, <<"shi">>, <<>>), <<"zai">>, <<>>),
                                  <<"qing", "an", "pai">>, <<>>), <<"dao">>, <<>>), <<"zhi">>, <<>>))
\* the title with a longer residue left as it is
TitleOrDefaultUncut(text) == IF text = <<>> THEN DefaultTitle ELSE text

\* lines 494-497
TitleOrDefault(text) ==
    IF text = <<>> THEN DefaultTitle
    ELSE IF Len(text) > MaxTitleLen THEN SubSeq(text, 1, MaxTitleLen) ELSE text

extract_title(text) == TitleOrDefault(RemoveFillers(RemoveTimesAndDates(text)))

(***************************************************************************)
(* NLPParser.parse, lines 82-100: the start and end instants.  An instant  *)
(* is [y, m, d, h, mi].                                                    *)
(***************************************************************************)
At(dt, h, mi) == [y |-> dt.y, m |-> dt.m, d |-> dt.d, h |-> h, mi |-> mi]
DateOf(i) == [y |-> i.y, m |-> i.m, d |-> i.d]
\* a < b on instants
Before(a, b) ==
    \/ ToOrdinal(DateOf(a)) < ToOrdinal(DateOf(b))
    \/ DateOf(a) = DateOf(b) /\ (a.h < b.h \/ (a.h = b.h /\ a.mi < b.mi))

\* lines 83-87: the end time of day is dt_end.time(), one hour after the
\* start for a degenerate pair (time() drops the date of dt_end); the parsed
\* end otherwise
EndTimeOfDay(tp) ==
    IF tp.sh = tp.eh /\ tp.sm = tp.em THEN <<(tp.sh + 1) % 24, tp.sm>> ELSE <<tp.eh, tp.em>>

\* line 85: dt_start + timedelta(hours=1) overflows in the last hour of date.max
WideningOverflows(date, tp) ==
    tp.sh = tp.eh /\ tp.sm = tp.em /\ tp.sh = 23 /\ ToOrdinal(date) = MaxOrdinal

\* lines 89-90
start_dt(date, tp) == At(date, tp.sh, tp.sm)
end_dt(date, tp) == At(date, EndTimeOfDay(tp)[1], EndTimeOfDay(tp)[2])

\* the message of line 79, in English
NoTimeMessage == "Sorry, I did not catch the time. Please say the hour, such as 2 in the afternoon."
Pending == [k |-> "pending"]
\* lines 77-80
Failure == [k |-> "failure", error |-> NoTimeMessage]
\* lines 95-100
Success(title, s, e) == [k |-> "success", title |-> title, start_time |-> s, end_time |-> e]

(***************************************************************************)
(* parse_time_flexible (src/calendar_bot.py): an instant on the reference  *)
(* date, or ValueError.                                                    *)
(***************************************************************************)
SomeInstant(i) == [k |-> "instant", i |-> i]

\* the directives of datetime.strptime: %I, %H, %M, %p (case-insensitive)
HourI == Alt(<<Cat(<<Ch("1"), OneOf({"0", "1", "2"})>>), Cat(<<Ch("0"), OneOf(Digits \ {"0"})>>),
               OneOf(Digits \ {"0"})>>)
HourH == Alt(<<Cat(<<Ch("2"), OneOf({"0", "1", "2", "3"})>>), Cat(<<OneOf({"0", "1"}), OneOf(Digits)>>),
               OneOf(Digits)>>)
MinuteM == Alt(<<Cat(<<OneOf({"0", "1", "2", "3", "4", "5"}), OneOf(Digits)>>), OneOf(Digits)>>)
AmPm == Alt(<<Cat(<<OneOf({"a", "A"}), OneOf({"m", "M"})>>), Cat(<<OneOf({"p", "P"}), OneOf({"m", "M"})>>)>>)

\* formats, lines 28-33: "%I:%M %p", "%H:%M", "%I:%M%p", "%I %p"
\* (group 1 the hour, group 2 the minute, group 3 the AM/PM mark)
NumFormats == 4
formats(n) ==
    CASE n = 1 -> Cat(<<Grp(1, HourI), Ch(":"), Grp(2, MinuteM), Plus(OneOf(Space)), Grp(3, AmPm)>>)
      [] n = 2 -> Cat(<<Grp(1, HourH), Ch(":"), Grp(2, MinuteM)>>)
      [] n = 3 -> Cat(<<Grp(1, HourI), Ch(":"), Grp(2, MinuteM), Grp(3, AmPm)>>)
      [] n = 4 -> Cat(<<Grp(1, HourI), Plus(OneOf(Space)), Grp(3, AmPm)>>)

\* str.upper() on the letters of the model's alphabet
UpperChar(c) ==
    CASE c = "a" -> "A" [] c = "m" -> "M" [] c = "p" -> "P" [] c = "l" -> "L"
      [] c = "d" -> "D" [] c = "y" -> "Y" [] OTHER -> c
Upper(s) == [j \in 1..Len(s) |-> UpperChar(s[j])]

\* strptime: the hour of a 12-hour clock with its AM/PM mark, of a 24-hour
\* clock when there is no mark
ClockHour(hour, mark) ==
    IF mark = <<>> THEN hour
    ELSE IF Upper(mark) = <<"A", "M">> THEN (IF hour = 12 THEN 0 ELSE hour)
    ELSE (IF hour = 12 THEN 12 ELSE hour + 12)

\* datetime.strptime(time_str, fmt) then replace(year, month, day), lines
\* 37-42; ValueError when the format does not match all of time_str
StrptimeAt(time_str, m, reference_date) ==
    IF m.ok /\ m.e = Len(time_str) + 1
    THEN SomeInstant(At(reference_date, ClockHour(StrToInt(Group(time_str, m, 1)), Group(time_str, m, 3)),
                        StrToInt(Group(time_str, m, 2))))
    ELSE Raise("ValueError")
Strptime(time_str, n, reference_date) ==
    StrptimeAt(time_str, ReMatchAt(formats(n), time_str, 1), reference_date)

\* r'(\d{1,2}):?(\d{2})?'
FallbackPattern ==
    Cat(<<Grp(1, Rep(OneOf(Digits), 1, 2)), Opt(Ch(":")), Opt(Grp(2, Rep(OneOf(Digits), 2, 2)))>>)

\* lines 54-55 ('pm' in time_str.lower() is the same test as 'PM' in upper())
is_pm(time_str) == Contains(Upper(time_str), <<"P", "M">>) \/ Contains(time_str, <<"xia", "wu">>)
is_am(time_str) == Contains(Upper(time_str), <<"A", "M">>) \/ Contains(time_str, <<"shang", "wu">>)

\* lines 57-60
FallbackHour(hour, pm, am) ==
    IF pm /\ hour < 12 THEN hour + 12 ELSE IF am /\ hour = 12 THEN 0 ELSE hour

\* lines 65-69: datetime(year, month, day, hour, minute)
InstantOrError(reference_date, hour, minute) ==
    IF hour \in 0..23 /\ minute \in 0..59 THEN SomeInstant(At(reference_date, hour, minute))
    ELSE Raise("ValueError")

\* lines 48-71: the regular-expression fallback
FallbackAt(time_str, m, reference_date) ==
    IF m.ok
    THEN InstantOrError(reference_date,
                        FallbackHour(StrToInt(Group(time_str, m, 1)), is_pm(time_str), is_am(time_str)),
                        StrToInt(Group(time_str, m, 2)))
    ELSE Raise("ValueError")
Fallback(time_str, reference_date) == FallbackAt(time_str, ReSearch(FallbackPattern, time_str), reference_date)

\* lines 35-44: the loop over formats, then the fallback
RECURSIVE TryFormats(_, _, _), TryFormat(_, _, _, _)
TryFormat(time_str, n, reference_date, parsed) ==
    IF parsed.k = "instant" THEN parsed ELSE TryFormats(time_str, n + 1, reference_date)
TryFormats(time_str, n, reference_date) ==
    IF n > NumFormats THEN Fallback(time_str, reference_date)
    ELSE TryFormat(time_str, n, reference_date, Strptime(time_str, n, reference_date))

parse_time_flexible(time_str, reference_date) == TryFormats(Strip(time_str), 1, DateOf(reference_date))

(***************************************************************************)
(* CalendarBot.check_time_conflict (src/calendar_bot.py): the scan of one  *)
(* event block and the overlap test.                                       *)
(***************************************************************************)
\* timedelta(days=1) added to an instant
AddDay(i) == At(FromOrdinal(ToOrdinal(DateOf(i)) + 1), i.h, i.mi)

\* ['全天', 'All day', 'all-day'], line 388
AllDayKeywords ==
    { <<"quan", "tian">>, <<"A", "l", "l", " ", "d", "a", "y">>, <<"a", "l", "l", "-", "d", "a", "y">> }

\* \d{1,2}:\d{2}
Clock == Cat(<<Rep(OneOf(Digits), 1, 2), Ch(":"), Rep(OneOf(Digits), 2, 2)>>)
\* time_pattern, line 393: r'(\d{1,2}:\d{2})\s*[-–—]\s*(\d{1,2}:\d{2})'
time_pattern == Cat(<<Grp(1, Clock), Spaces, OneOf({"-", "endash", "emdash"}), Spaces, Grp(2, Clock)>>)

\* strftime('%H:%M')
Pad2(n) == IF n < 10 THEN <<"0">> \o IntToStr(n) ELSE IntToStr(n)
StrfHM(i) == Pad2(i.h) \o <<":">> \o Pad2(i.mi)

\* lines 336-340: the proposal's end, a day later when it is before the start
NormalizedEnd(start, end) == IF Before(end, start) THEN AddDay(end) ELSE end

\* lines 403-413: the block's interval, the end a day later when it is not
\* after the start; None when either time does not parse
EventInterval(event_start, event_end) ==
    IF event_start.k = "raise" \/ event_end.k = "raise" THEN None
    ELSE [k |-> "interval", start |-> event_start.i,
          end |-> IF ~Before(event_start.i, event_end.i) THEN AddDay(event_end.i) ELSE event_end.i]

\* lines 394-405
MatchedInterval(full_text, match, reference_date) ==
    IF ~match.ok THEN None
    ELSE EventInterval(parse_time_flexible(Group(full_text, match, 1), reference_date),
                       parse_time_flexible(Group(full_text, match, 2), reference_date))

\* the block's interval with the all-day test left out
BlockIntervalWithAllDay(full_text, reference_date) ==
    IF full_text = <<>> \/ Len(Strip(full_text)) < 5 THEN None
    ELSE MatchedInterval(full_text, ReSearch(time_pattern, full_text), reference_date)

\* lines 382-413: the interval a block contributes, None when it is skipped
BlockInterval(full_text, reference_date) ==
    IF full_text = <<>> \/ Len(Strip(full_text)) < 5 THEN None
    ELSE IF \E keyword \in AllDayKeywords : Contains(full_text, keyword) THEN None
    ELSE MatchedInterval(full_text, ReSearch(time_pattern, full_text), reference_date)

\* the overlap test on closed intervals
has_overlap_closed(check_start, check_end, event_start, event_end) ==
    ~Before(event_end, check_start) /\ ~Before(check_end, event_start)
\* line 416
has_overlap(check_start, check_end, event_start, event_end) ==
    Before(check_start, event_end) /\ Before(event_start, check_end)

\* lines 419-420
overlap_start(check_start, event_start) == IF Before(check_start, event_start) THEN event_start ELSE check_start
overlap_end(check_end, event_end) == IF Before(event_end, check_end) THEN event_end ELSE check_end

\* lines 427-433: one entry of conflicting_events
ConflictEntry(full_text, cs, ce, iv) ==
    [start |-> StrfHM(iv.start), end |-> StrfHM(iv.end), original_text |-> full_text,
     overlap_start |-> StrfHM(overlap_start(cs, iv.start)), overlap_end |-> StrfHM(overlap_end(ce, iv.end))]

\* lines 323-327
EmptyReport == [has_conflict |-> FALSE, conflicting_events |-> <<>>, error |-> "None"]

\* lines 416-433: the report after a block with interval iv (or None)
Recorded(report, full_text, cs, ce, iv) ==
    IF iv.k = "interval" /\ has_overlap(cs, ce, iv.start, iv.end)
    THEN [report EXCEPT !.has_conflict = TRUE,
                        !.conflicting_events = Append(@, ConflictEntry(full_text, cs, ce, iv))]
    ELSE report

(***************************************************************************)
(* The utterances parse is run on: a date phrase, a second date phrase, a  *)
(* time phrase and a rest, concatenated; and the reference dates           *)
(* datetime.today() may return.                                            *)
(***************************************************************************)
Afternoon2 == <<"xia", "wu", "2", "dian">>
Afternoon3 == <<"xia", "wu", "3", "dian">>
AfternoonTwo == <<"xia", "wu", "c2b", "dian">>
Evening11 == <<"wan", "shang", "1", "1", "dian">>
Dec25 == <<"1", "2", "yue", "2", "5", "ri">>
NextTuesday == <<"xia", "zhou", "c2">>
ThisFriday == <<"ben", "zhou", "c5">>
TeamMeeting == <<",", "tuan", "dui", "hui", "yi">>
KaiHui == <<"kai", "hui">>

DatePhrases ==
    { <<>>,
      JinTian, MingTian, HouTian, DaHouTian, ZuoTian, QianTian, <<"ming", "ri">>,
      Dec25, <<"1", "1", ".", "3", "0">>, <<"c10", "c1", "hao">>,
      NextTuesday, ThisFriday, <<"xia", "xia", "zhou", "c3">>,
      <<"zhou", "c5">>, <<"shang", "zhou", "c1">>, <<"zhe", "ge", "xing", "qi", "tian">>,
      <<"xia", "zhou">>, <<"xia", "ge", "yue", "1", "5", "hao">>, <<"xia", "xia", "ge", "yue">>,
      <<"c3", "tian", "hou">>, <<"3", "tian", "hou">>, <<"c1", "zhou", "hou">>, <<"c2b", "ge", "yue", "hou">>,
      <<"9", "9", "9", "9", "9", "yue">>, <<"9", "9", "9", "9", "9", "9", "9", "tian", "hou">> }

SecondDatePhrases ==
    { JinTian, <<"jin", " ", "tian">>, MingTian, HouTian, Dec25, NextTuesday }

TimePhrases ==
    { <<>>,
      Afternoon2, Afternoon3, AfternoonTwo,
      <<"xia", "wu", "2", "dian", "dao", "3", "dian">>, <<"xia", "wu", "3", "dian", "dao", "2", "dian">>,
      Evening11, <<"wan", "shang", "c10", "c1", "dian", "ban">>,
      <<"2", "3", ":", "3", "0">>, <<"1", "4", ":", "0", "0", "-", "1", "5", ":", "3", "0">>,
      <<"1", "4", ":", "0", "0", "dao", "1", "5", "dian">>,
      <<"2", "5", "dian">>, <<"2", "dian", "7", "0", "fen">>,
      <<"zhong", "wu", "1", "1", "dian", "dao", "1", "2", "dian">>,
      <<"zhong", "wu", "1", "2", "dian", "dao", "1", "dian">>,
      <<"shang", "wu", "1", "2", "dian">>, <<"c3", "dian">>,
      <<"2", "dian", "c4", "c10", "c5", "fen">>, <<"c4", "c10", "dian">>, <<"c10", "c10", "dian">> }

BasicTimes == { <<>>, Afternoon2, Afternoon3, AfternoonTwo, Evening11 }
BasicDates == { <<>>, MingTian, NextTuesday }
Rests == { <<>>, KaiHui, Meeting, TeamMeeting }

\* rests of 20, 21 and 24 characters
Team == <<"tuan", "dui", "hui", "yi">>
Rest20 == Team \o Team \o Team \o Team \o Team
LongRests == { Rest20, Rest20 \o <<"kai">>, Rest20 \o Team }

\* texts for the normaliser: a compact date before a homophone of the
\* meeting word, and the same with a space inside or after the digit run
CompactPhrases ==
    { <<"4", "2", "8", "hui2", "yi2">>, <<"4", "2", "8", " ", "hui", "yi">>,
      <<"4", " ", "2", "8", "hui", "yi">>, <<"1", "3", "2", "8", "hui", "yi">> }

Utterances ==
    { d \o t \o r : d \in DatePhrases, t \in BasicTimes, r \in {<<>>, Meeting} }
    \cup { d \o t \o r : d \in BasicDates, t \in TimePhrases, r \in Rests }
    \cup { d \o e \o t : d \in DatePhrases, e \in SecondDatePhrases, t \in {<<>>, AfternoonTwo} }
    \cup { d \o t : d \in CompactPhrases, t \in {<<>>, AfternoonTwo} }
    \cup { d \o Afternoon2 \o r : d \in {<<>>, MingTian}, r \in LongRests }

\* 2025-11-28, the Friday the test notes of nlp_parser.py (line 602) take as today
FirstRefDate == [y |-> 2025, m |-> 11, d |-> 28]
NumRefDates == 7
\* the values of datetime.today(): NumRefDates consecutive days, a year end
\* and a month end
RefDates ==
    { FromOrdinal(ToOrdinal(FirstRefDate) + i) : i \in 0..(NumRefDates - 1) }
    \cup { [y |-> 2025, m |-> 12, d |-> 31], [y |-> 2024, m |-> 1, d |-> 31] }

(***************************************************************************)
(* The calls of check_time_conflict: the proposal's start and end on one   *)
(* date, and the texts of the event blocks the day view may show.          *)
(***************************************************************************)
\* <<start, end>> as times of day: plain, reversed, across midnight, empty
ProposalTimes ==
    { <<<<14, 0>>, <<15, 0>>>>, <<<<13, 0>>, <<14, 0>>>>, <<<<0, 30>>, <<13, 0>>>>,
      <<<<15, 0>>, <<14, 0>>>>, <<<<23, 30>>, <<0, 30>>>>, <<<<15, 0>>, <<15, 0>>>> }
Proposals == { <<At(FirstRefDate, t[1][1], t[1][2]), At(FirstRefDate, t[2][1], t[2][2])>> : t \in ProposalTimes }

Block1300 == <<"1", "3", ":", "0", "0", " ", "-", " ", "1", "4", ":", "0", "0">>
Block1430 == <<"1", "4", ":", "3", "0", " ", "endash", " ", "1", "5", ":", "3", "0">>
Block1500 == <<"1", "5", ":", "0", "0", "-", "1", "6", ":", "0", "0">>
BlockNight == <<"2", "3", ":", "0", "0", " ", "emdash", " ", "1", ":", "0", "0">>
BlockAllDay == <<"quan", "tian", " ", "1", "4", ":", "0", "0", "-", "1", "5", ":", "0", "0">>
BlockHour25 == <<"1", "4", ":", "0", "0", "-", "2", "5", ":", "0", "0">>
BlockPM == <<"2", ":", "0", "0", " ", "P", "M", " ", "endash", " ", "3", ":", "0", "0", " ", "P", "M">>
BlockShort == <<"9", ":", "0", "0">>
BlockNoRange == <<"L", "u", "n", "c", "h", " ", "1", "2", ":", "0", "0">>
BlockTexts ==
    { Block1300, Block1430, Block1500, BlockNight, BlockAllDay, BlockHour25, BlockPM, BlockShort, BlockNoRange }

MaxBlocks == 2
RECURSIVE BlockLists(_)
BlockLists(n) ==
    IF n = 0 THEN { <<>> }
    ELSE BlockLists(n - 1) \cup { Append(l, b) : l \in { x \in BlockLists(n - 1) : Len(x) = n - 1 }, b \in BlockTexts }

(***************************************************************************)
(* State of one call of parse: the utterance, the position in parse (pc),  *)
(* its local text, the today extract_date reads, the index of the parser   *)
(* the loop of extract_date is at, the parsers called so far (consulted),  *)
(* the date and time pair extracted, the functions parse has called        *)
(* (calls) and what it returned or raised (result).                        *)
(*                                                                         *)
(* State of one call of check_time_conflict: its arguments start_time and  *)
(* end_time, its position (cpc), the normalised check_start and check_end, *)
(* the event blocks the page returned (events), the index of the loop over *)
(* them (event_idx), the texts inner_text() gave (full_texts) and the      *)
(* result dictionary (conflict_result).                                    *)
(***************************************************************************)
VARIABLES utterance, pc, text, today, idx, consulted, date, time_pair, calls, result,
          start_time, end_time, cpc, check_start, check_end, events, event_idx, full_texts,
          conflict_result,
          calendar, page, rpc, schedule, check, created, outcome

parserVars == <<utterance, pc, text, today, idx, consulted, date, time_pair, calls, result>>
conflictVars ==
    <<start_time, end_time, cpc, check_start, check_end, events, event_idx, full_texts, conflict_result>>
pipelineVars == <<calendar, page, rpc, schedule, check, created, outcome>>
vars == <<parserVars, conflictVars, pipelineVars>>

NoToday == [y |-> 0, m |-> 0, d |-> 0]

ParserInit ==
    /\ utterance \in Utterances
    /\ pc = "normalize"
    /\ text = utterance
    /\ today = NoToday
    /\ idx = 0
    /\ consulted = <<>>
    /\ date = None
    /\ time_pair = None
    /\ calls = <<>>
    /\ result = Pending

\* parse, lines 55-64: the four normalisation stages
NormalizeText ==
    /\ pc = "normalize"
    /\ text' = Normalize(text)
    /\ pc' = "extract_date"
    /\ UNCHANGED <<utterance, today, idx, consulted, date, time_pair, calls, result>>
    /\ UNCHANGED <<conflictVars, pipelineVars>>

\* parse line 68 and extract_date lines 194-204: today is read and the loop
\* over the parsers starts
ExtractDateBegin ==
    /\ pc = "extract_date"
    /\ \E t \in RefDates : today' = t
    /\ idx' = 1
    /\ calls' = Append(calls, "extract_date")
    /\ pc' = "parsers"
    /\ UNCHANGED <<utterance, text, consulted, date, time_pair, result>>
    /\ UNCHANGED <<conflictVars, pipelineVars>>

\* extract_date lines 206-213 on what the parser at idx gave: an exception
\* leaves parse, a date is returned, None goes on to the next parser, and
\* after the last one today is returned
ParserReturns(r) ==
    /\ consulted' = Append(consulted, idx)
    /\ result' = IF r.k = "raise" THEN r ELSE result
    /\ date' = IF r.k = "date" THEN r ELSE IF r.k = "none" /\ idx = NumParsers THEN SomeDate(today) ELSE date
    /\ idx' = IF r.k = "none" /\ idx < NumParsers THEN idx + 1 ELSE idx
    /\ pc' = IF r.k = "raise" THEN "done"
             ELSE IF r.k = "date" \/ idx = NumParsers THEN "extract_time" ELSE pc

\* one turn of the loop of extract_date (line 195 removes the spaces)
RunParser ==
    /\ pc = "parsers"
    /\ ParserReturns(Parser(idx, Replace(text, <<" ">>, <<>>), today))
    /\ UNCHANGED <<utterance, text, today, time_pair, calls>>
    /\ UNCHANGED <<conflictVars, pipelineVars>>

\* parse lines 74-80 on what extract_time gave
TimeReturns(r) ==
    /\ result' = IF r.k = "raise" THEN r ELSE IF r.k = "none" THEN Failure ELSE result
    /\ time_pair' = IF r.k = "pair" THEN r ELSE time_pair
    /\ pc' = IF r.k = "pair" THEN "assemble" ELSE "done"

\* parse lines 74-80: the time pair, or the failure record
ExtractTime ==
    /\ pc = "extract_time"
    /\ calls' = Append(calls, "extract_time")
    /\ TimeReturns(extract_time(text))
    /\ UNCHANGED <<utterance, text, today, idx, consulted, date>>
    /\ UNCHANGED <<conflictVars, pipelineVars>>

\* parse lines 82-103: the instants, the title and the success record
Assemble ==
    /\ pc = "assemble"
    /\ IF WideningOverflows(date.d, time_pair)
       THEN /\ result' = Raise("OverflowError")
            /\ UNCHANGED calls
       ELSE /\ calls' = Append(calls, "extract_title")
            /\ result' = Success(extract_title(text), start_dt(date.d, time_pair), end_dt(date.d, time_pair))
    /\ pc' = "done"
    /\ UNCHANGED <<utterance, text, today, idx, consulted, date, time_pair>>
    /\ UNCHANGED <<conflictVars, pipelineVars>>

\* no call of parse is running
ParserIdle ==
    /\ utterance = <<>>
    /\ pc = "idle"
    /\ text = <<>>
    /\ today = NoToday
    /\ idx = 0
    /\ consulted = <<>>
    /\ date = None
    /\ time_pair = None
    /\ calls = <<>>
    /\ result = Pending

NoInstant == [y |-> 0, m |-> 0, d |-> 0, h |-> 0, mi |-> 0]

\* no call of check_time_conflict is running
ConflictIdle ==
    /\ start_time = NoInstant
    /\ end_time = NoInstant
    /\ cpc = "idle"
    /\ check_start = NoInstant
    /\ check_end = NoInstant
    /\ events = <<>>
    /\ event_idx = 0
    /\ full_texts = <<>>
    /\ conflict_result = EmptyReport

\* check_time_conflict(start_time, end_time) is entered, lines 323-327
ConflictInit ==
    /\ \E proposal \in Proposals : start_time = proposal[1] /\ end_time = proposal[2]
    /\ cpc = "called"
    /\ check_start = NoInstant
    /\ check_end = NoInstant
    /\ events = <<>>
    /\ event_idx = 0
    /\ full_texts = <<>>
    /\ conflict_result = EmptyReport

\* lines 331-333: the browser cannot be made ready
BrowserNotReady ==
    /\ cpc = "called"
    /\ conflict_result' = [conflict_result EXCEPT !.error = "cannot initialise the browser"]
    /\ cpc' = "returned"
    /\ UNCHANGED <<start_time, end_time, check_start, check_end, events, event_idx, full_texts>>
    /\ UNCHANGED <<parserVars, pipelineVars>>

\* lines 336-375: the proposal is normalised, the day view is loaded and the
\* event blocks are selected; with no block the result is returned
Navigate ==
    /\ cpc = "called"
    /\ check_start' = start_time
    /\ check_end' = NormalizedEnd(start_time, end_time)
    /\ \E found \in BlockLists(MaxBlocks) : events' = found
    /\ event_idx' = 1
    /\ cpc' = IF events' = <<>> THEN "returned" ELSE "scan"
    /\ UNCHANGED <<start_time, end_time, full_texts, conflict_result>>
    /\ UNCHANGED <<parserVars, pipelineVars>>

\* lines 347 and 451-454: loading the day view raises; the exception's text
\* becomes the error
NavigateFails ==
    /\ cpc = "called"
    /\ check_start' = start_time
    /\ check_end' = NormalizedEnd(start_time, end_time)
    /\ conflict_result' = [conflict_result EXCEPT !.error = "navigation failed"]
    /\ cpc' = "returned"
    /\ UNCHANGED <<start_time, end_time, events, event_idx, full_texts>>
    /\ UNCHANGED <<parserVars, pipelineVars>>

\* lines 378-439: one turn of the loop over the event blocks
CheckEvent ==
    /\ cpc = "scan"
    /\ event_idx <= Len(events)
    /\ full_texts' = Append(full_texts, events[event_idx])
    /\ conflict_result' = Recorded(conflict_result, events[event_idx], check_start, check_end,
                                   BlockInterval(events[event_idx], start_time))
    /\ event_idx' = event_idx + 1
    /\ UNCHANGED <<start_time, end_time, cpc, check_start, check_end, events>>
    /\ UNCHANGED <<parserVars, pipelineVars>>

\* lines 381 and 437-439: inner_text() raises, the block is passed over
InnerTextFails ==
    /\ cpc = "scan"
    /\ event_idx <= Len(events)
    /\ event_idx' = event_idx + 1
    /\ UNCHANGED <<start_time, end_time, cpc, check_start, check_end, events, full_texts, conflict_result>>
    /\ UNCHANGED <<parserVars, pipelineVars>>

\* lines 441-449: the loop is over, the result is returned
ReturnResult ==
    /\ cpc = "scan"
    /\ event_idx > Len(events)
    /\ cpc' = "returned"
    /\ UNCHANGED <<start_time, end_time, check_start, check_end, events, event_idx, full_texts, conflict_result>>
    /\ UNCHANGED <<parserVars, pipelineVars>>

(***************************************************************************)
(* The voice pipeline of app.py: websocket_voice and process_voice run     *)
(* the same steps for a request (speech_to_text, parse, check_time_        *)
(* conflict, create_event) on the one CalendarBot of the module, whose     *)
(* page all requests share.  Each await of the code is a point where       *)
(* another request may run.  A schedule is a day and the hours s..e; the   *)
(* calendar is the set of events saved, each with the request that filled  *)
(* its form (0 for an event that was there before).                        *)
(***************************************************************************)
NumRequests == 2
Requests == 1..NumRequests

Schedules ==
    { [day |-> 1, s |-> 14, e |-> 15], [day |-> 1, s |-> 15, e |-> 16], [day |-> 2, s |-> 14, e |-> 15] }
InitialCalendars == { {}, {[day |-> 2, s |-> 14, e |-> 15, by |-> 0]} }

NoSchedule == [day |-> 0, s |-> 0, e |-> 0]
NoEvent == [day |-> 0, s |-> 0, e |-> 0, by |-> 0]
NoCheck == [k |-> "none", has_conflict |-> FALSE, error |-> "None"]
Blank == [view |-> "blank", day |-> 0, event |-> NoEvent]

\* calendar_bot.py lines 342-347: the day view of the schedule's start date
DayView(sch) == [view |-> "day", day |-> sch.day, event |-> NoEvent]
\* calendar_bot.py lines 488-498: the event form filled from the URL
EditForm(sch, r) ==
    [view |-> "edit", day |-> 0, event |-> [day |-> sch.day, s |-> sch.s, e |-> sch.e, by |-> r]]

\* calendar_bot.py lines 361-375: the event blocks the page shows when it is queried
ShownEvents(shown, cal) == IF shown.view = "day" THEN { ev \in cal : ev.day = shown.day } ELSE {}
\* calendar_bot.py lines 403-416: the block's times are put on the schedule's
\* own date (reference_date = start_time) and compared with the proposal
TimesOverlap(sch, ev) == sch.s < ev.e /\ ev.s < sch.e
\* calendar_bot.py lines 323-327 and 441-449
CheckReturned(conflict) == [k |-> "returned", has_conflict |-> conflict, error |-> "None"]
\* calendar_bot.py lines 331-333 and 451-454
CheckError(message) == [k |-> "returned", has_conflict |-> FALSE, error |-> message]

PipelineIdle ==
    /\ calendar = {}
    /\ page = Blank
    /\ rpc = <<>>
    /\ schedule = <<>>
    /\ check = <<>>
    /\ created = <<>>
    /\ outcome = <<>>

\* every request has sent its audio
PipelineInit ==
    /\ calendar \in InitialCalendars
    /\ page = Blank
    /\ rpc = [r \in Requests |-> "speech"]
    /\ schedule = [r \in Requests |-> NoSchedule]
    /\ check = [r \in Requests |-> NoCheck]
    /\ created = [r \in Requests |-> FALSE]
    /\ outcome = [r \in Requests |-> "pending"]

\* the request ends with the response `response`
Ends(r, response) ==
    /\ rpc' = [rpc EXCEPT ![r] = "done"]
    /\ outcome' = [outcome EXCEPT ![r] = response]

\* app.py lines 201-215 and 383-393: the text is recognised
SpeechRecognised(r) ==
    /\ rpc[r] = "speech"
    /\ rpc' = [rpc EXCEPT ![r] = "parse"]
    /\ UNCHANGED <<calendar, page, schedule, check, created, outcome>>
    /\ UNCHANGED <<parserVars, conflictVars>>

\* app.py lines 203-213 and 385-390: nothing was recognised
SpeechFails(r) ==
    /\ rpc[r] = "speech"
    /\ Ends(r, "speech_recognition_failed")
    /\ UNCHANGED <<calendar, page, schedule, check, created>>
    /\ UNCHANGED <<parserVars, conflictVars>>

\* app.py lines 225 and 396, then 242 and 407: parse returns a schedule
ParseSucceeds(r) ==
    /\ rpc[r] = "parse"
    /\ \E sch \in Schedules : schedule' = [schedule EXCEPT ![r] = sch]
    /\ rpc' = [rpc EXCEPT ![r] = "check"]
    /\ UNCHANGED <<calendar, page, check, created, outcome>>
    /\ UNCHANGED <<parserVars, conflictVars>>

\* app.py lines 228-240 and 398-405: parse returns the failure record; lines
\* 347-357 and 472-478 when it raises
ParseFails(r) ==
    /\ rpc[r] = "parse"
    /\ Ends(r, "nlp_parse_failed")
    /\ UNCHANGED <<calendar, page, schedule, check, created>>
    /\ UNCHANGED <<parserVars, conflictVars>>

\* calendar_bot.py lines 331-333: check_time_conflict cannot make the browser ready
CheckBrowserNotReady(r) ==
    /\ rpc[r] = "check"
    /\ check' = [check EXCEPT ![r] = CheckError("cannot initialise the browser")]
    /\ rpc' = [rpc EXCEPT ![r] = "decide"]
    /\ UNCHANGED <<calendar, page, schedule, created, outcome>>
    /\ UNCHANGED <<parserVars, conflictVars>>

\* calendar_bot.py lines 342-348: the shared page is sent to the day view
CheckNavigate(r) ==
    /\ rpc[r] = "check"
    /\ page' = DayView(schedule[r])
    /\ rpc' = [rpc EXCEPT ![r] = "query"]
    /\ UNCHANGED <<calendar, schedule, check, created, outcome>>
    /\ UNCHANGED <<parserVars, conflictVars>>

\* calendar_bot.py lines 347 and 451-454: page.goto raises
CheckNavigateFails(r) ==
    /\ rpc[r] = "check"
    /\ check' = [check EXCEPT ![r] = CheckError("navigation failed")]
    /\ rpc' = [rpc EXCEPT ![r] = "decide"]
    /\ UNCHANGED <<calendar, page, schedule, created, outcome>>
    /\ UNCHANGED <<parserVars, conflictVars>>

\* calendar_bot.py lines 349-449: after the wait the blocks of the page as
\* it is now are selected and compared with the proposal
CheckScan(r) ==
    /\ rpc[r] = "query"
    /\ check' = [check EXCEPT ![r] =
                    CheckReturned(\E ev \in ShownEvents(page, calendar) : TimesOverlap(schedule[r], ev))]
    /\ rpc' = [rpc EXCEPT ![r] = "decide"]
    /\ UNCHANGED <<calendar, page, schedule, created, outcome>>
    /\ UNCHANGED <<parserVars, conflictVars>>

\* app.py lines 257-282 and 417-429: has_conflict is set, the request ends
ReportConflict(r) ==
    /\ rpc[r] = "decide"
    /\ check[r].has_conflict
    /\ Ends(r, "time_conflict")
    /\ UNCHANGED <<calendar, page, schedule, check, created>>
    /\ UNCHANGED <<parserVars, conflictVars>>

\* app.py lines 257, 284-299 and 417, 431-437: has_conflict is not set,
\* create_event is called
CallCreateEvent(r) ==
    /\ rpc[r] = "decide"
    /\ ~check[r].has_conflict
    /\ created' = [created EXCEPT ![r] = TRUE]
    /\ rpc' = [rpc EXCEPT ![r] = "create"]
    /\ UNCHANGED <<calendar, page, schedule, check, outcome>>
    /\ UNCHANGED <<parserVars, conflictVars>>

\* calendar_bot.py lines 475-480: create_event cannot make the browser ready
CreateBrowserNotReady(r) ==
    /\ rpc[r] = "create"
    /\ Ends(r, "create_failed")
    /\ UNCHANGED <<calendar, page, schedule, check, created>>
    /\ UNCHANGED <<parserVars, conflictVars>>

\* calendar_bot.py lines 484-499: the shared page is sent to the event form
CreateNavigate(r) ==
    /\ rpc[r] = "create"
    /\ page' = EditForm(schedule[r], r)
    /\ rpc' = [rpc EXCEPT ![r] = "save"]
    /\ UNCHANGED <<calendar, schedule, check, created, outcome>>
    /\ UNCHANGED <<parserVars, conflictVars>>

\* calendar_bot.py lines 502-523: after the waits Control+s is pressed on
\* the page as it is now; a form that is shown is saved
CreateSave(r) ==
    /\ rpc[r] = "save"
    /\ calendar' = IF page.view = "edit" THEN calendar \cup {page.event} ELSE calendar
    /\ page' = IF page.view = "edit" THEN Blank ELSE page
    /\ Ends(r, "created")
    /\ UNCHANGED <<schedule, check, created>>
    /\ UNCHANGED <<parserVars, conflictVars>>

\* one call of parse
Init == ParserInit /\ ConflictIdle /\ PipelineIdle

Next ==
    \/ NormalizeText
    \/ ExtractDateBegin
    \/ RunParser
    \/ ExtractTime
    \/ Assemble

Spec == Init /\ [][Next]_vars

\* one call of check_time_conflict
ConflictSpecInit == ConflictInit /\ ParserIdle /\ PipelineIdle

ConflictNext ==
    \/ BrowserNotReady
    \/ Navigate
    \/ NavigateFails
    \/ CheckEvent
    \/ InnerTextFails
    \/ ReturnResult

ConflictSpec == ConflictSpecInit /\ [][ConflictNext]_vars

\* NumRequests requests in any interleaving of their steps
PipelineSpecInit == PipelineInit /\ ParserIdle /\ ConflictIdle

PipelineNext ==
    \E r \in Requests :
        \/ SpeechRecognised(r)
        \/ SpeechFails(r)
        \/ ParseSucceeds(r)
        \/ ParseFails(r)
        \/ CheckBrowserNotReady(r)
        \/ CheckNavigate(r)
        \/ CheckNavigateFails(r)
        \/ CheckScan(r)
        \/ ReportConflict(r)
        \/ CallCreateEvent(r)
        \/ CreateBrowserNotReady(r)
        \/ CreateNavigate(r)
        \/ CreateSave(r)

PipelineSpec == PipelineSpecInit /\ [][PipelineNext]_vars

(***************************************************************************)
(* Properties of parse (checked under Spec) and of check_time_conflict     *)
(* (checked under ConflictSpec).                                           *)
(***************************************************************************)
\* the text extract_date works on, line 195
Cleaned == Replace(text, <<" ">>, <<>>)
Dec2 == MkDate(2025, 12, 2)

\* C1: every successful parse returns an end instant strictly after its
\* start instant (a single time late in the evening and a range that ends
\* before it starts included).
C1_EndAfterStart == result.k = "success" => Before(result.start_time, result.end_time)

C2_Utterance == MingTian \o <<"xia", "wu", "2", "dian", "dao", "3", "dian">> \o TeamMeeting
\* C2: with today 2025-11-28, "ming tian xia wu 2 dian dao 3 dian , tuan dui
\* hui yi" parses to exactly the title "tuan dui hui yi", start
\* 2025-11-29T14:00 and end 2025-11-29T15:00.
C2_TeamMeeting ==
    (pc = "done" /\ utterance = C2_Utterance /\ today = FirstRefDate)
        => result = Success(<<"tuan", "dui", "hui", "yi">>,
                            At(MkDate(2025, 11, 29), 14, 0), At(MkDate(2025, 11, 29), 15, 0))

\* C3: parse ends in a success record or in the failure record and never
\* raises, whatever hour and minute numerals the text holds.
C3_TwoOutcomes == pc = "done" => result.k \in {"success", "failure"}

\* C4: when the text holds no recognisable time, parse returns the failure
\* record and has not extracted a title.
C4_NoTimeFails ==
    (pc = "done" /\ extract_time(text) = None)
        => (result = Failure /\ \A j \in 1..Len(calls) : calls[j] # "extract_title")

\* minutes of instant i counted from the midnight that starts the date of ref
MinutesFrom(ref, i) == (ToOrdinal(DateOf(i)) - ToOrdinal(DateOf(ref))) * 1440 + i.h * 60 + i.mi
\* the block with text b is among the reported conflicts
Reported(b) ==
    \E j \in 1..Len(conflict_result.conflicting_events) : conflict_result.conflicting_events[j].original_text = b
\* the half-open test on the minutes of the proposal ps..pe and of the existing interval es..ee
HalfOpenOverlap(ps, pe, es, ee) == ps < ee /\ pe > es
BlockOverlaps(iv) ==
    HalfOpenOverlap(MinutesFrom(start_time, check_start), MinutesFrom(start_time, check_end),
                    MinutesFrom(start_time, iv.start), MinutesFrom(start_time, iv.end))

\* C5: a block that contributes an interval is reported as a conflict if and
\* only if proposedStart < existingEnd and proposedEnd > existingStart; for
\* the proposal 14:00-15:00 the block 13:00-14:00 is never reported and the
\* block 14:30-15:30 always is.
C5_HalfOpenTest ==
    /\ \A j \in 1..Len(full_texts) :
          BlockInterval(full_texts[j], start_time).k = "interval"
              => (Reported(full_texts[j]) <=> BlockOverlaps(BlockInterval(full_texts[j], start_time)))
    /\ (start_time = At(FirstRefDate, 14, 0) /\ end_time = At(FirstRefDate, 15, 0))
          => /\ ~Reported(Block1300)
             /\ (\E j \in 1..Len(full_texts) : full_texts[j] = Block1430) => Reported(Block1430)
\* C5 witness: the proposal 14:00-15:00 scanned against both blocks, only the second reported
C5_Witness ==
    /\ cpc = "returned"
    /\ start_time = At(FirstRefDate, 14, 0) /\ end_time = At(FirstRefDate, 15, 0)
    /\ full_texts = <<Block1300, Block1430>>
    /\ conflict_result.has_conflict
    /\ Len(conflict_result.conflicting_events) = 1
    /\ conflict_result.conflicting_events[1].original_text = Block1430

\* C6: the grammars are consulted in the order 1..5 and none after the first
\* that returns a date; a text matching both the keyword grammar and the
\* specific-date grammar takes the keyword grammar's date with only that
\* grammar consulted.
C6_FirstMatchWins ==
    /\ \A j \in 1..Len(consulted) : consulted[j] = j
    /\ \A j \in 1..(Len(consulted) - 1) : Parser(j, Cleaned, today) = None
    /\ (pc = "parsers" /\ consulted # <<>>) => Parser(Len(consulted), Cleaned, today) = None
    /\ (date.k = "date" /\ Parser(Len(consulted), Cleaned, today) # None)
          => date = Parser(Len(consulted), Cleaned, today)
    /\ (date.k = "date" /\ _parse_base_keywords(Cleaned, today) # None
                        /\ _parse_specific_date(Cleaned, today) # None)
          => (consulted = <<1>> /\ date = _parse_base_keywords(Cleaned, today))
\* C6 witness: "jin tian 12 yue 25 ri ..." resolved to today by grammar 1 alone
C6_Witness ==
    /\ pc = "done" /\ result.k = "success"
    /\ utterance = JinTian \o Dec25 \o AfternoonTwo
    /\ consulted = <<1>>
    /\ date = SomeDate(today)
    /\ _parse_specific_date(Cleaned, today) = SomeDate(MkDate(2025, 12, 25))

\* utterances with a digit-hour time of day and no date expression
DigitTimeOnly == { t \o r : t \in {Afternoon2, Afternoon3, Evening11}, r \in Rests }
\* C7: for a digit-hour time of day with no date expression the date is the
\* reference date.
C7_ReferenceDateKept == (date.k = "date" /\ utterance \in DigitTimeOnly) => date.d = today

\* days from a date on weekday w to the coming Monday, 7 on a Monday
ToComingMonday(w) == IF w = 0 THEN 7 ELSE 7 - w
NextTuesdayAtThree == { NextTuesday \o t \o r : t \in {Afternoon3}, r \in {<<>>, Meeting} }
\* C8: "xia zhou c2 ... 3 dian" resolves to the coming Monday plus one day
\* for every reference date; with today 2025-11-28 "xia zhou c2 xia wu 3
\* dian hui yi" resolves to 2025-12-02 and "ben zhou c5 xia wu 2 dian" to
\* 2025-12-05.
C8_RelativeWeekdayRule ==
    /\ (date.k = "date" /\ utterance \in NextTuesdayAtThree)
          => date = PlusDays(today, ToComingMonday(Weekday(today)) + 1)
    /\ (date.k = "date" /\ today = FirstRefDate /\ utterance = NextTuesday \o Afternoon3 \o Meeting)
          => date.d = Dec2
    /\ (date.k = "date" /\ today = FirstRefDate /\ utterance = ThisFriday \o Afternoon2)
          => date.d = MkDate(2025, 12, 5)

\* C9: every input containing "da hou tian" resolves to the reference date
\* plus 3 days.
C9_DaHouTianPlus3 == (date.k = "date" /\ Contains(utterance, DaHouTian)) => date = PlusDays(today, 3)

\* C10 as stated: an input containing "jin tian" resolves to R, one
\* containing "ming tian" to R+1 and one containing "hou tian" to R+2,
\* whatever else it contains.
C10_AnyOtherText ==
    date.k = "date"
        => /\ Contains(utterance, JinTian) => date.d = today
           /\ Contains(utterance, MingTian) => date = PlusDays(today, 1)
           /\ Contains(utterance, HouTian) => date = PlusDays(today, 2)

HasToday(t) == Contains(t, JinTian) \/ Contains(t, <<"jin", "ri">>)
HasTomorrow(t) == Contains(t, MingTian) \/ Contains(t, <<"ming", "ri">>)
KeywordDate(t) ==
    /\ HasToday(t) => date.d = today
    /\ (~HasToday(t) /\ HasTomorrow(t)) => date = PlusDays(today, 1)
    /\ (~HasToday(t) /\ ~HasTomorrow(t) /\ Contains(t, HouTian)) => date = PlusDays(today, 2)
\* C10 amended: on the normalised text without spaces, "jin tian" / "jin ri"
\* resolves to R; failing those, "ming tian" / "ming ri" resolves to R+1;
\* failing those too, "hou tian" resolves to R+2; whatever else it contains.
C10_KeywordPrecedence == date.k = "date" => KeywordDate(Cleaned)
\* C10 witness: "hou tian ming tian ..." resolved to R+1
C10_Witness ==
    /\ pc = "done" /\ result.k = "success"
    /\ utterance = HouTian \o MingTian \o AfternoonTwo
    /\ date = PlusDays(today, 1)

NextMonth15 == <<"xia", "ge", "yue", "1", "5", "hao">>
TwoMonthsAhead == <<"xia", "xia", "ge", "yue">>
\* day `day` of the month n months after the month of dt, the last day of
\* that month when it has no such day
MonthsAhead(dt, n, day) ==
    MkDate(dt.y + ((dt.m + n - 1) \div 12), ((dt.m + n - 1) % 12) + 1,
           IF day > DaysInMonth(dt.y + ((dt.m + n - 1) \div 12), ((dt.m + n - 1) % 12) + 1)
           THEN DaysInMonth(dt.y + ((dt.m + n - 1) \div 12), ((dt.m + n - 1) % 12) + 1)
           ELSE day)
\* C11: "xia ge yue 15 hao" resolves to day 15 of the month after the
\* reference month for every reference date, and "xia xia ge yue" with no
\* day to day 1 of the month two months after it.
C11_NextMonthDay ==
    /\ (date.k = "date" /\ utterance \in { NextMonth15 \o t \o r : t \in BasicTimes, r \in {<<>>, Meeting} })
          => date.d = MonthsAhead(today, 1, 15)
    /\ (date.k = "date" /\ utterance \in { TwoMonthsAhead \o t : t \in {<<>>, AfternoonTwo} })
          => date.d = MonthsAhead(today, 2, 1)

ThreeDaysLaterDigits == <<"3", "tian", "hou">>
ThreeDaysLaterWord == <<"c3", "tian", "hou">>
OneWeekLater == <<"c1", "zhou", "hou">>
\* C12: "3 tian hou" and "c3 tian hou" both resolve to the reference date
\* plus 3 days, and "c1 zhou hou" to the reference date plus 7 days.
C12_UnitsFromNow ==
    /\ (date.k = "date" /\ utterance \in { d \o t : d \in {ThreeDaysLaterDigits, ThreeDaysLaterWord}, t \in {<<>>, AfternoonTwo} })
          => date = PlusDays(today, 3)
    /\ (date.k = "date" /\ utterance \in { OneWeekLater \o t : t \in {<<>>, AfternoonTwo} })
          => date = PlusDays(today, 7)

ThisSunday == <<"zhe", "ge", "xing", "qi", "tian">>
FridayIndex == 4
SundayIndex == 6
\* the number in 1..7 congruent to target - current modulo 7
ThisWeekdayOffset(target, current) == ((target - current + 6) % 7) + 1
ThisWeekdayOnly(d) == { d \o t \o r : t \in {<<>>, AfternoonTwo}, r \in {<<>>, Meeting} }
PlusOneHour(i) == IF i.h = 23 THEN At(DateOf(AddDay(i)), 0, i.mi) ELSE At(DateOf(i), i.h + 1, i.mi)
\* C14: when extract_time gives one time only (start equal to end), the
\* returned end instant is the start instant plus one hour, on the next
\* date when the hour added crosses midnight.
C14_SingleTimeWidened ==
    (result.k = "success" /\ time_pair.sh = time_pair.eh /\ time_pair.sm = time_pair.em)
        => /\ result.start_time = At(date.d, time_pair.sh, time_pair.sm)
           /\ result.end_time = PlusOneHour(result.start_time)

\* C15: the text the normaliser returns is left as it is by the normaliser,
\* for every input text, a space between the digits and the meeting word
\* included.
C15_NormalizeIdempotent == pc = "extract_date" => Normalize(text) = text

NoonTwelveToOne == <<"zhong", "wu", "1", "2", "dian", "dao", "1", "dian">>
NoonElevenToTwelve == <<"zhong", "wu", "1", "1", "dian", "dao", "1", "2", "dian">>
AfternoonTwoToThree == <<"xia", "wu", "2", "dian", "dao", "3", "dian">>
MorningTwelve == <<"shang", "wu", "1", "2", "dian">>
TimeExtracted == \E j \in 1..Len(calls) : calls[j] = "extract_time"
WithTime(t) == { d \o t \o r : d \in BasicDates, r \in Rests }
\* C16: the day period adjusts each hour of a range by that hour's own
\* value: "zhong wu 12 dian dao 1 dian" is 12:00 to 13:00, "zhong wu 11
\* dian dao 12 dian" is 23:00 to 12:00, "xia wu 2 dian dao 3 dian" is 14:00
\* to 15:00, and the single "shang wu 12 dian" is 0:00, "wan shang 11 dian"
\* 23:00.
C16_PeriodAdjustsEachHour ==
    /\ (TimeExtracted /\ utterance \in WithTime(NoonTwelveToOne)) => time_pair = TimePair(12, 0, 13, 0)
    /\ (TimeExtracted /\ utterance \in WithTime(NoonElevenToTwelve)) => time_pair = TimePair(23, 0, 12, 0)
    /\ (TimeExtracted /\ utterance \in WithTime(AfternoonTwoToThree)) => time_pair = TimePair(14, 0, 15, 0)
    /\ (TimeExtracted /\ utterance \in WithTime(MorningTwelve)) => time_pair = TimePair(0, 0, 0, 0)
    /\ (TimeExtracted /\ utterance \in WithTime(Evening11)) => time_pair = TimePair(23, 0, 23, 0)

Eleventh == <<"c10", "c1", "hao">>
Nov30Dotted == <<"1", "1", ".", "3", "0">>
SpecificDateResolved == date.k = "date" /\ consulted = <<1, 2>>
DateOnly(d) == { d \o t \o r : t \in BasicTimes, r \in {<<>>, Meeting} }
\* the year of month/day on or after dt: the following year when month/day
\* is strictly before the month/day of dt
YearOnOrAfter(dt, month, day) == IF month < dt.m \/ (month = dt.m /\ day < dt.d) THEN dt.y + 1 ELSE dt.y
\* day in the month of dt, or in the month after it when day is before the day of dt
DayOnOrAfter(dt, day) ==
    IF day >= dt.d THEN MkDate(dt.y, dt.m, day)
    ELSE IF dt.m = 12 THEN MkDate(dt.y + 1, 1, day)
    ELSE MkDate(dt.y, dt.m + 1, day)
\* C17: a date the specific-date grammar returns is never before the
\* reference date; "12 yue 25 ri" and "11.30" are placed in the following
\* year when the month and day are strictly before the reference month and
\* day and in the reference year otherwise; the day-only "c10 c1 hao" is
\* placed in the reference month, or in the following month when 11 is
\* before the reference day, the year going up from month 12 to month 1.
C17_SpecificDateNotBefore ==
    /\ SpecificDateResolved => ToOrdinal(date.d) >= ToOrdinal(today)
    /\ (SpecificDateResolved /\ utterance \in DateOnly(Dec25))
          => date.d = MkDate(YearOnOrAfter(today, 12, 25), 12, 25)
    /\ (SpecificDateResolved /\ utterance \in DateOnly(Nov30Dotted))
          => date.d = MkDate(YearOnOrAfter(today, 11, 30), 11, 30)
    /\ (pc = "done" /\ utterance \in DateOnly(Eleventh))
          => (SpecificDateResolved /\ date.d = DayOnOrAfter(today, 11))
C17_Witness ==
    /\ utterance = Dec25 \o AfternoonTwo
    /\ today = MkDate(2025, 12, 31)
    /\ SpecificDateResolved
    /\ date.d = MkDate(2026, 12, 25)
C17_WitnessDayOnly ==
    /\ utterance = Eleventh \o AfternoonTwo
    /\ today = MkDate(2025, 12, 31)
    /\ SpecificDateResolved
    /\ date.d = MkDate(2026, 1, 11)

\* the proposal's end as the interval it stands for: a day later when it is
\* not after the start
ProposedEnd == IF Before(start_time, end_time) THEN end_time ELSE AddDay(end_time)
Normalised == cpc \in {"scan", "returned"} /\ check_start # NoInstant
\* C18: before comparing, the conflict check adds one day to the proposal's
\* end whenever the end is less than or equal to the start, so a proposal
\* with end equal to start spans 24 hours.
C18_ProposalNormalised ==
    Normalised => /\ check_start = start_time
                  /\ check_end = ProposedEnd
                  /\ Before(check_start, check_end)

\* the interval iv of an existing block overlaps the proposal start_time..ProposedEnd
IntervalOverlapsProposal(iv) ==
    iv.k = "interval" /\ Before(start_time, iv.end) /\ Before(iv.start, ProposedEnd)
OverlapsProposal(b) == IntervalOverlapsProposal(BlockInterval(b, start_time))
ReportedTexts ==
    [j \in 1..Len(conflict_result.conflicting_events) |-> conflict_result.conflicting_events[j].original_text]
\* C19: in every report has_conflict is true exactly when conflicting_events
\* is not empty, and conflicting_events holds exactly the scanned blocks
\* whose interval overlaps the proposal, in the order they were scanned.
C19_ReportIsOverlapsInOrder ==
    /\ conflict_result.has_conflict <=> Len(conflict_result.conflicting_events) > 0
    /\ ReportedTexts = SelectSeq(full_texts, OverlapsProposal)

Later(a, b) == IF Before(a, b) THEN b ELSE a
Earlier(a, b) == IF Before(a, b) THEN a ELSE b
\* the entry reports the bounds of the overlap of the proposal with iv
BoundsOf(entry, iv) ==
    /\ iv.k = "interval"
    /\ entry.overlap_start = StrfHM(Later(start_time, iv.start))
    /\ entry.overlap_end = StrfHM(Earlier(ProposedEnd, iv.end))
    /\ Before(Later(check_start, iv.start), Earlier(check_end, iv.end))
\* C20: every reported conflict gives overlap_start as the later of the
\* proposal's start and the existing start and overlap_end as the earlier
\* of the proposal's end and the existing end, both taken on the instants
\* moved across midnight, and the first is strictly before the second.
C20_OverlapBounds ==
    \A j \in 1..Len(conflict_result.conflicting_events) :
        BoundsOf(conflict_result.conflicting_events[j],
                 BlockInterval(conflict_result.conflicting_events[j].original_text, start_time))

Scanned(b) == \E j \in 1..Len(full_texts) : full_texts[j] = b
\* C21: each side of a block's time range may be "H:MM", "H:MM AM/PM" or
\* "H AM/PM": the block "2:00 PM - 3:00 PM" contributes the interval 14:00
\* to 15:00, so a proposal 14:00-15:00 scanned against it reports it.
C21_AmPmBlockContributes ==
    (Scanned(BlockPM) /\ start_time = At(FirstRefDate, 14, 0) /\ end_time = At(FirstRefDate, 15, 0))
        => /\ BlockInterval(BlockPM, start_time) =
                  [k |-> "interval", start |-> At(FirstRefDate, 14, 0), end |-> At(FirstRefDate, 15, 0)]
           /\ Reported(BlockPM)

\* blocks with an all-day marker, with no time range, with an hour that is no hour
ExcludedBlocks == { BlockAllDay, BlockNoRange, BlockShort, BlockHour25 }
NotExcluded(b) == b \notin ExcludedBlocks
RemainingBlocks == SelectSeq(full_texts, NotExcluded)
\* the report of the check over the first n blocks of the sequence blocks
RECURSIVE ReportOver(_, _)
ReportOver(blocks, n) ==
    IF n = 0 THEN EmptyReport
    ELSE Recorded(ReportOver(blocks, n - 1), blocks[n], check_start, check_end,
                  BlockInterval(blocks[n], start_time))
\* C22: a block with an all-day marker, with no time range or with a time
\* that does not parse (hour 25) contributes no interval and is not
\* reported; the check goes on without an error and its report equals the
\* report of the same check over the other blocks only.
C22_UnscannableBlocksExcluded ==
    /\ \A b \in ExcludedBlocks : ~Reported(b)
    /\ Len(full_texts) > 0 => conflict_result.error = "None"
    /\ (cpc \in {"scan", "returned"} /\ conflict_result.error = "None")
          => conflict_result = ReportOver(RemainingBlocks, Len(RemainingBlocks))
C22_Witness ==
    /\ cpc = "returned"
    /\ start_time = At(FirstRefDate, 14, 0) /\ end_time = At(FirstRefDate, 15, 0)
    /\ full_texts = <<BlockAllDay, Block1430>>
    /\ conflict_result.error = "None"
    /\ Len(conflict_result.conflicting_events) = 1
    /\ conflict_result.conflicting_events[1].original_text = Block1430
C22_WitnessHour25 ==
    /\ cpc = "returned"
    /\ start_time = At(FirstRefDate, 14, 0) /\ end_time = At(FirstRefDate, 15, 0)
    /\ full_texts = <<BlockHour25, BlockNoRange>>
    /\ conflict_result = EmptyReport

\* what is left of the text for the title
TitleResidue == RemoveFillers(RemoveTimesAndDates(text))
\* C24: the title is never empty and never longer than 20 characters; it is
\* "ri cheng an pai" when nothing is left of the text, and the first 20
\* characters of what is left, with nothing appended, when that is longer.
C24_TitleBounded ==
    result.k = "success"
        => /\ Len(result.title) >= 1
           /\ Len(result.title) <= 20
           /\ TitleResidue = <<>> => result.title = DefaultTitle
           /\ (TitleResidue # <<>> /\ Len(TitleResidue) <= 20) => result.title = TitleResidue
           /\ Len(TitleResidue) > 20 => result.title = [j \in 1..20 |-> TitleResidue[j]]
           /\ utterance \in { MingTian \o Afternoon2 \o r : r \in LongRests } => result.title = Rest20
           /\ utterance = MingTian \o Afternoon2 => result.title = DefaultTitle
C24_Witness ==
    /\ pc = "done"
    /\ utterance = MingTian \o Afternoon2 \o Rest20 \o Team
    /\ result.k = "success"
    /\ Len(TitleResidue) = 24
    /\ result.title = Rest20
C24_WitnessFallback ==
    /\ pc = "done"
    /\ utterance = MingTian \o Afternoon2
    /\ result.k = "success"
    /\ result.title = DefaultTitle

Compact428 == <<"4", "2", "8", "hui2", "yi2">>
Compact1328 == <<"1", "3", "2", "8", "hui", "yi">>
April28 == <<"4", "yue", "2", "8", "ri">>
\* C25: the compact-date rewrite replaces the digit run only: "428 hui2 yi2"
\* becomes "4 yue 28 ri hui yi", the meeting word kept in its corrected
\* form, and "1328 hui yi", whose month is not 1..12, is left as it is.
C25_CompactDateKeepsWord ==
    /\ (pc = "extract_date" /\ utterance \in { Compact428 \o t : t \in {<<>>, AfternoonTwo} })
          => /\ _apply_error_correction(utterance) = April28 \o Meeting \o SubSeq(utterance, 6, Len(utterance))
             /\ text = April28 \o Meeting \o SubSeq(utterance, 6, Len(utterance))
    /\ (pc = "extract_date" /\ utterance \in { Compact1328 \o t : t \in {<<>>, AfternoonTwo} })
          => text = utterance

\* the hour numeral the single-time pattern hands to chinese_to_number
HourTokenAt(match) == IF match.ok THEN Group(text, match, 2) ELSE <<>>
HourToken == HourTokenAt(ReSearch(SinglePattern0, text))
\* C26: the converter gives the value of every supported numeral: a digit
\* string, a numeral word ("c3" is 3, "c2b" 2), ten and units ("c10 c1" is
\* 11), units and ten ("c4 c10" is 40); and 0 for any other token, such as
\* "c10" followed by "c10".
C26_NumeralValues ==
    pc = "extract_time"
        => /\ HourToken = <<"c4", "c10">> => chinese_to_number(HourToken) = 40
           /\ HourToken = <<"c10", "c10">> => chinese_to_number(HourToken) = 0
           /\ HourToken = <<"c10", "c1">> => chinese_to_number(HourToken) = 11
           /\ HourToken = <<"c3">> => chinese_to_number(HourToken) = 3
           /\ HourToken = <<"c2b">> => chinese_to_number(HourToken) = 2
           /\ (HourToken # <<>> /\ IsDigit(HourToken)) => chinese_to_number(HourToken) = StrToInt(HourToken)

FortyOClock == <<"c4", "c10", "dian">>
TwoFortyFive == <<"2", "dian", "c4", "c10", "c5", "fen">>
\* C27: a numeral that converts to 0 without being a zero is rejected by
\* the caller: extract_time returns no time with hour 0 for "c4 c10 dian"
\* and none with minute 0 for "2 dian c4 c10 c5 fen".
C27_ZeroIsUnparseable ==
    /\ (TimeExtracted /\ utterance \in WithTime(FortyOClock))
          => ~(time_pair.k = "pair" /\ time_pair.sh = 0)
    /\ (TimeExtracted /\ utterance \in WithTime(TwoFortyFive))
          => ~(time_pair.k = "pair" /\ time_pair.sm = 0)

(***************************************************************************)
(* Properties of the pipeline (checked under PipelineSpec).                *)
(***************************************************************************)
\* an event of the calendar on the schedule's day overlaps the schedule
OwnDayConflict(sch) == \E ev \in calendar : ev.day = sch.day /\ TimesOverlap(sch, ev)
\* C23: the result of a conflict check depends only on its own proposal and
\* the events of its own day, whatever other requests run between its
\* steps: when a check returns, has_conflict is set exactly when an event
\* of the calendar on the proposal's day overlaps the proposal.
C23_CheckReadsOwnDay ==
    [][\A r \in Requests :
          (rpc[r] = "query" /\ rpc'[r] = "decide")
              => (check'[r].has_conflict <=> OwnDayConflict(schedule[r]))]_vars

\* C28: create_event is called for a request only after its conflict check
\* returned with has_conflict false; a request whose speech recognition,
\* parse or conflict check ended in failure or in a conflict never reaches
\* create_event.
C28_CreateOnlyAfterCleanCheck ==
    \A r \in Requests :
        /\ created[r] => (check[r].k = "returned" /\ ~check[r].has_conflict /\ check[r].error = "None")
        /\ outcome[r] \in {"speech_recognition_failed", "nlp_parse_failed", "time_conflict"} => ~created[r]

\* C29: when check_time_conflict returns with its error field set, the
\* event of that request is not created.
C29_NoCreateAfterCheckError ==
    \A r \in Requests :
        (check[r].k = "returned" /\ check[r].error # "None")
            => /\ ~created[r]
               /\ \A ev \in calendar : ev.by # r

Overlapping(a, b) == a.day = b.day /\ a.s < b.e /\ b.s < a.e
\* C30: starting from a calendar with no overlapping events, no two events
\* of the calendar overlap, in every interleaving of the requests (here of
\* requests whose conflict checks all returned without an error).
C30_NoOverlappingEvents ==
    (\A r \in Requests : check[r].error = "None")
        => \A a \in calendar : \A b \in calendar : a # b => ~Overlapping(a, b)

====
